---------------------------- MODULE Spec2Model ----------------------------
(***************************************************************************)
(* Model of the sprint-restructure pipeline of scripts/sprint_restructure: *)
(* DocumentClassifier, NameResolver, SimilarityAnalyzer, StructureProposer *)
(* and OperationPlanner.                                                   *)
(*                                                                         *)
(* Strings.  A page title is a record                                      *)
(*     [pre  : sequence of leading context tokens,                         *)
(*      base : the words of the title,                                     *)
(*      post : sequence of trailing parenthesised tokens]                  *)
(* which stands for the string                                             *)
(*     render(pre) + base + render(post)                                   *)
(* where a pre token [style, ctx] renders as "{ctx} - " (dash),            *)
(* "{ctx}: " (colon) or "[{ctx}] " (bracket) and a post token renders as   *)
(* " ({n})" (kind num) or " (Sprint {n})" (kind sprint).  Two records are  *)
(* equal exactly when the strings are equal (no base of the model holds a  *)
(* bracket, a dash, a colon or a parenthesis), so a string built by the    *)
(* code by concatenation can coincide with a title a page already has.     *)
(*                                                                         *)
(* Scores and similarities are Python floats in the code; the model        *)
(* computes them exactly, scores in hundredths and similarities as         *)
(* fractions, except under SpecAverages, which computes the similarities   *)
(* of group_similar in binary64 arithmetic, rounding as the code does.      *)
(***************************************************************************)
EXTENDS Integers, Sequences, FiniteSets, TLC

VARIABLES
    strategy,                 \* NameResolver.strategy
    always_preserve_context,  \* NameResolver.always_preserve_context
    existing_titles,          \* NameResolver._existing_titles: folder id -> set of titles
    planned_titles,           \* NameResolver._planned_titles: folder id -> set of titles
    returned,                 \* history: folder id -> titles returned by resolve since the last reset_planned
    last,                     \* history: the last NameResolver call, its arguments and its outcome
    calls,                    \* history: number of calls made
    min_confidence,           \* DocumentClassifier.min_confidence, in hundredths
    classified,               \* history: the last classify call, its arguments and its result
    pc,                       \* where the caller of propose and create_plan stands
    args,                     \* the arguments of the propose call
    proposal,                 \* the RestructureProposal propose returned to its caller
    plan,                     \* the OperationPlan create_plan returned
    runs,                     \* history: number of propose calls the proposer has served
    analyzed,                 \* history: the last SimilarityAnalyzer call, its arguments and its result
    rows,                     \* the committed rows of content_operations: operation id -> row
    tx,                       \* the open transaction of save_to_db: the rows inserted and not committed
    clock,                    \* NOW() of the database
    executor,                 \* where execute_operations.py stands
    saved,                    \* the planner's connection and what its last save_to_db call gave
    forest                    \* a UnionFind object, the union calls made on it, its last call

resolverVars == <<strategy, always_preserve_context, existing_titles, planned_titles,
                  returned, last, calls>>
classifierVars == <<min_confidence, classified>>
pipelineVars == <<pc, args, proposal, plan, runs>>
analyzerVars == <<analyzed, forest>>
storeVars == <<rows, tx, clock, executor, saved>>

vars == <<resolverVars, classifierVars, pipelineVars, analyzerVars, storeVars>>

-----------------------------------------------------------------------------
(* Bounds of the model *)

\* Number of NameResolver calls a behaviour of SpecResolver makes.
MaxCalls == 3

\* Number of resolve calls a behaviour of SpecSuffix makes.
MaxSuffixCalls == 2

-----------------------------------------------------------------------------
(* Titles *)

\* source_context None (or the empty string): falsy in `needs_context and source_context`.
NoContext == ""

\* The contexts resolve is called with: sprint labels as the classifier
\* extracts them ("Sprint {N}") and a context that is no sprint label.
SprintLabels == {"Sprint 8", "Sprint 08", "Sprint 9"}
Contexts == SprintLabels \cup {"Q3"}

\* Whether `Sprint\s*\d+` matches the whole of a context string.
IsSprintLabel(ctx) == ctx \in SprintLabels

MkTitle(pre, base, post) == [pre |-> pre, base |-> base, post |-> post]
Plain(base) == MkTitle(<<>>, base, <<>>)
PreTok(style, ctx) == [style |-> style, ctx |-> ctx]
NumTok(n) == [kind |-> "num", n |-> n]
SprintTok(n) == [kind |-> "sprint", n |-> n]

\* f"{title} ({suffix})"
WithSuffix(title, suffix) == [title EXCEPT !.post = Append(@, NumTok(suffix))]

\* f"{source_context} - {original_title}"
WithParentName(ctx, title) == [title EXCEPT !.pre = <<PreTok("dash", ctx)>> \o @]

\* f"[{source_context}] {original_title}"
WithBracketContext(ctx, title) == [title EXCEPT !.pre = <<PreTok("bracket", ctx)>> \o @]

\* NameResolver.CONTEXT_PATTERNS, searched by has_context:
\*   ^Sprint\s*\d+\s*[-:]\s*     ^\[Sprint\s*\d+\]\s*     \(Sprint\s*\d+\)$
has_context(title) ==
    \/ /\ title.pre # <<>>
       /\ title.pre[1].style \in {"dash", "colon"}
       /\ IsSprintLabel(title.pre[1].ctx)
    \/ /\ title.pre # <<>>
       /\ title.pre[1].style = "bracket"
       /\ IsSprintLabel(title.pre[1].ctx)
    \/ /\ title.post # <<>>
       /\ title.post[Len(title.post)].kind = "sprint"

-----------------------------------------------------------------------------
(* NameResolver *)

Strategies == {"append-parent-name", "preserve-context", "append-suffix"}

\* The safety limit of _add_suffix: `if suffix > 100`.
SuffixLimit == 100

\* existing | planned of check_collision and _add_suffix (a missing key reads as set()).
all_titles(ex, pl, target_folder_id) == ex[target_folder_id] \cup pl[target_folder_id]

\* A collision check that looks at the titles of every folder.
check_collision_anywhere(ex, pl, title, target_folder_id) ==
    \E f \in DOMAIN ex : title \in ex[f] \/ title \in pl[f]

\* A collision check that looks at the existing titles only.
check_collision_existing(ex, pl, title, target_folder_id) == title \in ex[target_folder_id]

\* check_collision(title, target_folder_id).has_collision: title in existing | planned
check_collision(ex, pl, title, target_folder_id) ==
    title \in ex[target_folder_id] \/ title \in pl[target_folder_id]

\* A loop that gives up one suffix later.
TriedSuffixes_one_more == 2..(SuffixLimit + 1)

\* The suffixes the loop of _add_suffix tries: it starts at 2, and after a taken
\* candidate `suffix += 1; if suffix > 100: raise ValueError`.
TriedSuffixes == 2..SuffixLimit

\* An _add_suffix that returns the first numbered title without a look at
\* the titles of the folder.
_add_suffix_blind(ex, pl, title, target_folder_id) ==
    [raised |-> FALSE, title |-> WithSuffix(title, 2)]

\* _add_suffix(title, target_folder_id): f"{title} ({suffix})" for the first tried
\* suffix whose candidate is not in existing | planned (every smaller one is
\* taken), or the ValueError when every tried candidate is taken.
_add_suffix(ex, pl, title, target_folder_id) ==
    LET IsTaken(n) == \/ WithSuffix(title, n) \in ex[target_folder_id]
                      \/ WithSuffix(title, n) \in pl[target_folder_id]
    IN  IF \A n \in TriedSuffixes : IsTaken(n)
        THEN [raised |-> TRUE, title |-> title]
        ELSE [raised |-> FALSE,
              title |-> WithSuffix(title,
                            CHOOSE n \in TriedSuffixes :
                                ~IsTaken(n) /\ \A m \in 2..(n - 1) : IsTaken(m))]

\* A needs_context that does not read force_context.
needs_context_unforced(always, collides, title, force_context) ==
    IF has_context(title)
    THEN FALSE
    ELSE always \/ collides

\* A needs_context that does not look for a context marker in the title.
needs_context_unmarked(always, collides, title, force_context) ==
    force_context \/ always \/ collides

\* needs_context of resolve.
needs_context(always, collides, title, force_context) ==
    IF has_context(title)
    THEN FALSE
    ELSE force_context \/ always \/ collides

\* The title after the optional context injection of resolve.
InjectContext(strat, title, source_context) ==
    CASE strat = "append-parent-name" -> WithParentName(source_context, title)
      [] strat = "preserve-context"   -> WithBracketContext(source_context, title)
      [] OTHER                        -> title

\* The outcome of resolve for the title it holds after the optional context
\* injection: raised tells the ValueError of _add_suffix, otherwise
\* resolved_title, collision_avoided and context_preserved are those of the
\* NameResolution; injected is the title the suffix search starts from and
\* collided whether that title was taken.  suffixed is what _add_suffix gives.
NameResolution(title, context_preserved, collision, suffixed) ==
    [raised            |-> collision /\ suffixed.raised,
     resolved_title    |-> IF collision THEN suffixed.title ELSE title,
     collision_avoided |-> collision,
     context_preserved |-> context_preserved,
     injected          |-> title,
     collided          |-> collision]

\* `if collision.has_collision: resolved_title = self._add_suffix(...)`
resolve_collision(ex, pl, title, target_folder_id, context_preserved, collision) ==
    NameResolution(title, context_preserved, collision,
                   _add_suffix(ex, pl, title, target_folder_id))

\* resolve from `if needs_context and source_context` on: collision is the
\* has_collision of the original title, inject the value of the condition.
resolve_context(strat, ex, pl, original_title, target_folder_id, source_context, collision, inject) ==
    IF inject
    THEN resolve_collision(ex, pl, InjectContext(strat, original_title, source_context),
                           target_folder_id,
                           strat \in {"append-parent-name", "preserve-context"},
                           check_collision(ex, pl,
                                           InjectContext(strat, original_title, source_context),
                                           target_folder_id))
    ELSE resolve_collision(ex, pl, original_title, target_folder_id, FALSE, collision)

\* resolve once check_collision(original_title, target_folder_id) gave collision.
resolve_checked(strat, always, ex, pl, original_title, target_folder_id, source_context, force_context, collision) ==
    resolve_context(strat, ex, pl, original_title, target_folder_id, source_context,
                    collision,
                    /\ needs_context(always, collision, original_title, force_context)
                    /\ source_context # NoContext)

\* resolve(page_id, original_title, target_folder_id, source_context, force_context)
\* in resolver state (ex, pl) under configuration (strat, always).  page_id is
\* not read by resolve.
resolve(strat, always, ex, pl, original_title, target_folder_id, source_context, force_context) ==
    resolve_checked(strat, always, ex, pl, original_title, target_folder_id, source_context,
                    force_context,
                    check_collision(ex, pl, original_title, target_folder_id))

\* A resolve that registers the title it returns in every folder.
RegisterPlanned_everywhere(pl, target_folder_id, resolved_title) ==
    [f \in DOMAIN pl |-> pl[f] \cup {resolved_title}]

\* A resolve that does not register the title it returns.
RegisterPlanned_skipped(pl, target_folder_id, resolved_title) == pl

\* The planned titles after a resolve that returned: the resolved title is
\* registered in the target folder's planned set.
RegisterPlanned(pl, target_folder_id, resolved_title) ==
    [pl EXCEPT ![target_folder_id] = @ \cup {resolved_title}]

-----------------------------------------------------------------------------
(* Texts of the model *)

\* The base words of the page titles.  No base holds a context marker.
Bases == {"Retro", "Sprint 8 Retro", "Design Note", "Notes", "Sprint Review",
          "Retro Meeting Notes", ""}

\* A page body is a set of phrases (the text is the phrases joined by ". ");
\* the empty set is the empty body.  Every phrase is a keyword of
\* CONTENT_KEYWORDS or holds none, and no keyword straddles two phrases, so
\* `keyword.lower() in content_lower` is membership of the keyword in the set.
Vocabulary == {"went well", "improve", "kudos", "feedback", "keep doing", "stop doing",
               "action items", "agenda", "architecture", "lorem ipsum"}

\* re.findall(r'\b[a-z0-9]+\b', phrase.lower())
WordsOf(phrase) ==
    CASE phrase = "went well"    -> {"went", "well"}
      [] phrase = "keep doing"   -> {"keep", "doing"}
      [] phrase = "stop doing"   -> {"stop", "doing"}
      [] phrase = "action items" -> {"action", "items"}
      [] phrase = "lorem ipsum"  -> {"lorem", "ipsum"}
      [] OTHER                   -> {phrase}

-----------------------------------------------------------------------------
(* DocumentClassifier *)

\* class DocumentType, in declaration order (the iteration order of `scores`).
DocumentTypes == <<"sprint-review", "design-note", "story-note", "meeting-notes",
                   "retrospective", "technical-doc", "uncategorized">>

UNCATEGORIZED == "uncategorized"

\* TITLE_PATTERNS: the document types one of whose patterns is found in the title
\* (re.IGNORECASE search).  The patterns read the words of the title only: no
\* context token and no numeric suffix of the model adds or removes a match.
TitlePatternTypes(title) ==
    CASE title.base = "Retro"               -> {"retrospective"}
      [] title.base = "Sprint 8 Retro"      -> {"retrospective"}
      [] title.base = "Design Note"         -> {"design-note"}
      [] title.base = "Sprint Review"       -> {"sprint-review"}
      [] title.base = "Retro Meeting Notes" -> {"meeting-notes", "retrospective"}
      [] OTHER                              -> {}

\* CONTENT_KEYWORDS
CONTENT_KEYWORDS(doc_type) ==
    CASE doc_type = "sprint-review" ->
            {"velocity", "burndown", "story points", "completed", "carried over",
             "sprint goal", "done", "in progress", "demo", "showcase",
             "achievements", "delivered", "sprint metrics"}
      [] doc_type = "design-note" ->
            {"architecture", "component", "interface", "module", "diagram",
             "sequence", "class diagram", "flow chart", "design decision",
             "tradeoff", "alternative", "proposed solution", "technical approach"}
      [] doc_type = "story-note" ->
            {"acceptance criteria", "user story", "as a user", "given when then",
             "scenario", "requirement", "feature", "epic", "subtask",
             "definition of done", "dod", "acceptance test"}
      [] doc_type = "meeting-notes" ->
            {"attendees", "agenda", "action items", "decisions", "discussion",
             "follow up", "next steps", "minutes", "blockers", "updates",
             "participants", "notes from"}
      [] doc_type = "retrospective" ->
            {"went well", "improve", "action items", "kudos", "keep doing",
             "stop doing", "start doing", "feedback", "team health",
             "mad sad glad", "lessons learned"}
      [] doc_type = "technical-doc" ->
            {"installation", "prerequisites", "configuration", "api", "endpoint",
             "parameters", "response", "example", "usage", "command",
             "step by step", "getting started", "troubleshooting"}
      [] OTHER -> {}

\* The weight of a title pattern match, `scores[doc_type] += 0.6`, in hundredths.
TitleWeight == 60

\* The weight of the keyword score, `* 0.4`, in hundredths.
KeywordWeight == 40

\* The keyword count that earns the full keyword score, `keyword_count / 5.0`.
KeywordNorm == 5

Min(a, b) == IF a <= b THEN a ELSE b

\* The title part of scores[doc_type]: one pattern match counts, once.
TitleScore(doc_type, title) ==
    IF doc_type \in TitlePatternTypes(title) THEN TitleWeight ELSE 0

\* keyword_count for doc_type.
KeywordCount(doc_type, content) == Cardinality(CONTENT_KEYWORDS(doc_type) \cap content)

\* min(keyword_count / 5.0, 1.0) * 0.4, in hundredths; nothing for an empty body.
KeywordScore(doc_type, content) ==
    IF content # {} /\ KeywordCount(doc_type, content) > 0
    THEN (Min(KeywordCount(doc_type, content), KeywordNorm) * KeywordWeight) \div KeywordNorm
    ELSE 0

\* scores[doc_type] of classify.
Score(doc_type, title, content) == TitleScore(doc_type, title) + KeywordScore(doc_type, content)

\* best_score = scores[max(scores, key=scores.get)]
BestScore(title, content) ==
    CHOOSE s \in {Score(DocumentTypes[i], title, content) : i \in DOMAIN DocumentTypes} :
        \A i \in DOMAIN DocumentTypes : Score(DocumentTypes[i], title, content) <= s

\* max(scores, key=scores.get): the first type, in declaration order, with the best score.
BestType(title, content) ==
    LET best == BestScore(title, content)
        first == CHOOSE i \in DOMAIN DocumentTypes :
                    /\ Score(DocumentTypes[i], title, content) = best
                    /\ \A j \in 1..(i - 1) : Score(DocumentTypes[j], title, content) # best
    IN  DocumentTypes[first]

\* A threshold test that also rejects a score equal to the threshold.
BelowThreshold_inclusive(best_score, min_conf) == best_score <= min_conf

\* `if best_score < self.min_confidence`
BelowThreshold(best_score, min_conf) == best_score < min_conf

\* The sprint label found in the words of a title, "" for none.
BaseSprint(base) == IF base = "Sprint 8 Retro" THEN "Sprint 8" ELSE NoContext

\* The sprint label of a trailing "(Sprint {n})".
SprintLabelOf(n) == "Sprint " \o ToString(n)

\* The labels SPRINT_PATTERNS find in the tokens of a title, in reading order.
TitleSprintMatches(title) ==
    LET pre == SelectSeq(title.pre, LAMBDA tok : IsSprintLabel(tok.ctx))
        post == SelectSeq(title.post, LAMBDA tok : tok.kind = "sprint")
    IN  [i \in DOMAIN pre |-> pre[i].ctx]
            \o (IF BaseSprint(title.base) # NoContext THEN <<BaseSprint(title.base)>> ELSE <<>>)
            \o [i \in DOMAIN post |-> SprintLabelOf(post[i].n)]

\* _extract_sprint(title): f"Sprint {match.group(1)}" for the leftmost match, None for none.
_extract_sprint(title) ==
    IF TitleSprintMatches(title) = <<>> THEN NoContext ELSE TitleSprintMatches(title)[1]

\* _extract_sprint(parent_title) for the parent titles of the model.
ParentSprint(parent_title) ==
    CASE parent_title = "[Sprint08]" -> "Sprint 08"
      [] parent_title = "Sprint 9"   -> "Sprint 9"
      [] OTHER                       -> NoContext

\* source_sprint = self._extract_sprint(title) or self._extract_sprint(parent_title)
SourceSprint(title, parent_title) ==
    IF _extract_sprint(title) # NoContext THEN _extract_sprint(title)
    ELSE ParentSprint(parent_title)

\* classify(title, content, parent_title) with self.min_confidence = min_conf.
\* matched_patterns and matched_keywords of the result are not modelled.
classify(min_conf, title, content, parent_title) ==
    LET best_score == BestScore(title, content)
        below == BelowThreshold(best_score, min_conf)
    IN  [doc_type      |-> IF below THEN UNCATEGORIZED ELSE BestType(title, content),
         confidence    |-> Min(IF below THEN 0 ELSE best_score, 100),
         source_sprint |-> SourceSprint(title, parent_title)]

-----------------------------------------------------------------------------
(* Folders *)

\* StructureProposer.TARGET_FOLDERS, in order.
TargetFolderNames ==
    <<"01-Sprint-Reviews", "02-Design-Notes", "03-Story-Notes", "04-Meeting-Notes",
      "05-Retrospectives", "06-Technical-Docs", "99-Archive", "99-Uncategorized">>

\* Titles of legacy sprint folders found under the restructuring root.
SprintFolderTitles == {"[Sprint08]", "Sprint 9"}

\* The id the content repository gives the folder of a title.
RealId(title) == "id:" \o title

\* f"NEW:{folder_name}"
Placeholder(folder_name) == "NEW:" \o folder_name

Range(seq) == {seq[i] : i \in DOMAIN seq}

\* The page the restructuring runs under.
RootTitle == "Team Space"
RootId == RealId(RootTitle)

\* Every key _existing_titles and _planned_titles are read or written with.
FolderIds ==
    {RealId(t) : t \in Range(TargetFolderNames) \cup SprintFolderTitles \cup {RootTitle}}
        \cup {Placeholder(n) : n \in Range(TargetFolderNames)}

NoTitles == [f \in FolderIds |-> {}]

-----------------------------------------------------------------------------
(* SpecResolver: a NameResolver driven through its interface *)

Retro == Plain("Retro")
S8DashRetro == WithParentName("Sprint 8", Retro)        \* "Sprint 8 - Retro"
S8BracketRetro == WithBracketContext("Sprint 8", Retro) \* "[Sprint 8] Retro"
RetroParenS8 == MkTitle(<<>>, "Retro", <<SprintTok(8)>>) \* "Retro (Sprint 8)"

\* The titles resolve is called with.
OriginalTitles == {Retro, S8DashRetro, S8BracketRetro, RetroParenS8}

\* The contexts resolve is called with.
ResolveContexts == {NoContext, "Sprint 8"}

\* The target folders of the calls: an existing folder and one still to be created.
FolderA == RealId("05-Retrospectives")
FolderB == Placeholder("02-Design-Notes")

\* The arguments of the resolve calls:
\* <<original_title, target_folder_id, source_context, force_context>>.
ResolveCalls ==
    (OriginalTitles \X {FolderA} \X ResolveContexts \X BOOLEAN)
        \cup {<<Retro, FolderB, "Sprint 8", FALSE>>, <<S8DashRetro, FolderB, NoContext, FALSE>>}

\* The arguments of the check_collision calls: <<title, target_folder_id>>.
CheckCalls == {<<Retro, FolderA>>, <<S8DashRetro, FolderB>>}

\* title, "title (2)", ..., "title (n)"
Chain(title, n) == {title} \cup {WithSuffix(title, k) : k \in 2..n}

\* The arguments of the register_existing_titles calls: <<folder_id, titles>>.
RegisterTitlesCalls ==
    {<<FolderA, {Retro}>>, <<FolderA, Chain(S8DashRetro, 2) \cup {RetroParenS8}>>,
     <<FolderB, {Retro}>>}

\* The page lists register_existing_pages is called with: parent_id, title.
RegisteredPageLists ==
    {<<[parent_id |-> FolderA, title |-> S8BracketRetro]>>,
     <<[parent_id |-> "", title |-> Retro],
       [parent_id |-> FolderA, title |-> Plain("")]>>,
     <<[parent_id |-> FolderB, title |-> S8DashRetro],
       [parent_id |-> FolderA, title |-> S8DashRetro]>>}

\* DocumentClassifier(min_confidence=0.3), in hundredths.
DefaultMinConfidence == 30

NoClassify == [op |-> "none"]
NoArgs == [pages |-> <<>>, existing_folders |-> <<>>]
NoProposal == [returned |-> FALSE]
NoPlan == [created |-> FALSE]

\* No SimilarityAnalyzer call was made.
NoAnalysis == [op |-> "none"]

\* content_operations holds no row; no transaction is open; the executor is
\* not running.
NoRows == <<>>
NoTx == [state |-> "none", inserted |-> <<>>, failed_at |-> 0]
IdleExecutor == [mode |-> "idle", queue |-> <<>>, current |-> "", dry_run |-> FALSE,
                 all_approved |-> FALSE]

\* A planner that holds a connection and has saved nothing.
NoSave == [conn |-> TRUE, dry_run |-> FALSE, outcome |-> "none", ids |-> <<>>]

\* UnionFind() with no call made on it.
NoForest == [uf |-> [keys |-> <<>>, parent |-> <<>>, rank |-> <<>>], unions |-> {}, op |-> "none", root |-> "", groups |-> <<>>]

\* Nothing was analysed, saved or executed.
Untouched ==
    /\ saved = NoSave
    /\ forest = NoForest
    /\ runs = 0
    /\ analyzed = NoAnalysis
    /\ rows = NoRows
    /\ tx = NoTx
    /\ clock = 0
    /\ executor = IdleExecutor

NoCall ==
    [op |-> "none", title |-> Plain(""), folder |-> "", context |-> NoContext,
     force_context |-> FALSE, taken |-> {}, result |-> [raised |-> FALSE]]

\* A NameResolver(strategy, always_preserve_context) right after construction.
ResolverConstructed ==
    /\ strategy \in Strategies
    /\ always_preserve_context \in BOOLEAN
    /\ existing_titles = NoTitles
    /\ planned_titles = NoTitles
    /\ returned = [f \in FolderIds |-> <<>>]
    /\ last = NoCall
    /\ calls = 0

\* The variables of the classifier and of the propose/create_plan caller while
\* only the resolver is driven.
ResolverOnly ==
    /\ min_confidence = DefaultMinConfidence
    /\ classified = NoClassify
    /\ pc = "resolver"
    /\ args = NoArgs
    /\ proposal = NoProposal
    /\ plan = NoPlan
    /\ Untouched

InitResolver == ResolverConstructed /\ ResolverOnly

\* register_existing_titles(folder_id, titles)
RegisterExistingTitles(folder_id, titles) ==
    /\ existing_titles' = [existing_titles EXCEPT ![folder_id] = titles]
    /\ last' = [NoCall EXCEPT !.op = "register_existing_titles", !.folder = folder_id]
    /\ calls' = calls + 1
    /\ UNCHANGED <<strategy, always_preserve_context, planned_titles, returned>>
    /\ UNCHANGED <<classifierVars, pipelineVars, analyzerVars, storeVars>>

\* The loop of register_existing_pages over pages[i..].
RECURSIVE register_pages_from(_, _, _)
register_pages_from(ex, pages, i) ==
    IF i > Len(pages) THEN ex
    ELSE LET page == pages[i]
             ex1 == IF page.parent_id # "" /\ page.title # Plain("")
                    THEN [ex EXCEPT ![page.parent_id] = @ \cup {page.title}]
                    ELSE ex
         IN  register_pages_from(ex1, pages, i + 1)

\* register_existing_pages(pages)
register_existing_pages(ex, pages) == register_pages_from(ex, pages, 1)

RegisterExistingPages(pages) ==
    /\ existing_titles' = register_existing_pages(existing_titles, pages)
    /\ last' = [NoCall EXCEPT !.op = "register_existing_pages"]
    /\ calls' = calls + 1
    /\ UNCHANGED <<strategy, always_preserve_context, planned_titles, returned>>
    /\ UNCHANGED <<classifierVars, pipelineVars, analyzerVars, storeVars>>

\* reset_planned()
ResetPlanned ==
    /\ planned_titles' = NoTitles
    /\ returned' = [f \in FolderIds |-> <<>>]
    /\ last' = [NoCall EXCEPT !.op = "reset_planned"]
    /\ calls' = calls + 1
    /\ UNCHANGED <<strategy, always_preserve_context, existing_titles>>
    /\ UNCHANGED <<classifierVars, pipelineVars, analyzerVars, storeVars>>

\* check_collision(title, target_folder_id)
CheckCollision(title, target_folder_id) ==
    /\ last' = [NoCall EXCEPT
                  !.op = "check_collision", !.title = title, !.folder = target_folder_id,
                  !.taken = all_titles(existing_titles, planned_titles, target_folder_id),
                  !.result = [raised |-> FALSE,
                              has_collision |-> check_collision(existing_titles, planned_titles,
                                                                title, target_folder_id)]]
    /\ calls' = calls + 1
    /\ UNCHANGED <<strategy, always_preserve_context, existing_titles, planned_titles, returned>>
    /\ UNCHANGED <<classifierVars, pipelineVars, analyzerVars, storeVars>>

\* The resolver after a resolve call with outcome r: the ValueError of
\* _add_suffix leaves it as it was; otherwise the resolved title is registered
\* as planned and returned.
ResolveReturns(original_title, target_folder_id, source_context, force_context, r) ==
    /\ last' = [op |-> "resolve", title |-> original_title, folder |-> target_folder_id,
                context |-> source_context, force_context |-> force_context,
                taken |-> all_titles(existing_titles, planned_titles, target_folder_id),
                result |-> r]
    /\ calls' = calls + 1
    /\ IF r.raised
       THEN UNCHANGED <<planned_titles, returned>>
       ELSE /\ planned_titles' = RegisterPlanned(planned_titles, target_folder_id,
                                                 r.resolved_title)
            /\ returned' = [returned EXCEPT ![target_folder_id] =
                                Append(@, r.resolved_title)]

\* resolve(page_id, original_title, target_folder_id, source_context, force_context)
Resolve(original_title, target_folder_id, source_context, force_context) ==
    /\ ResolveReturns(original_title, target_folder_id, source_context, force_context,
                      resolve(strategy, always_preserve_context, existing_titles,
                              planned_titles, original_title, target_folder_id,
                              source_context, force_context))
    /\ UNCHANGED <<strategy, always_preserve_context, existing_titles>>
    /\ UNCHANGED <<classifierVars, pipelineVars, analyzerVars, storeVars>>

NextResolver ==
    \/ calls < MaxCalls /\ \E c \in RegisterTitlesCalls : RegisterExistingTitles(c[1], c[2])
    \/ calls < MaxCalls /\ \E pages \in RegisteredPageLists : RegisterExistingPages(pages)
    \/ calls < MaxCalls /\ ResetPlanned
    \/ calls < MaxCalls /\ \E c \in CheckCalls : CheckCollision(c[1], c[2])
    \/ calls < MaxCalls /\ \E c \in ResolveCalls : Resolve(c[1], c[2], c[3], c[4])

SpecResolver == InitResolver /\ [][NextResolver]_vars

-----------------------------------------------------------------------------
(* SpecSuffix: resolve on a NameResolver whose target folder holds a run of *)
(* numbered titles                                                          *)

\* The titles registered for FolderA before the calls: runs "t", "t (2)", ...
\* that stop one short of the safety limit, at it or beyond it, or have a gap.
SuffixChains ==
    {Chain(S8DashRetro, SuffixLimit - 1),
     Chain(S8DashRetro, SuffixLimit),
     Chain(S8DashRetro, SuffixLimit + 1),
     Chain(S8DashRetro, SuffixLimit) \ {WithSuffix(S8DashRetro, 50)},
     Chain(Retro, SuffixLimit) \cup Chain(S8BracketRetro, SuffixLimit - 1)}

\* A constructed resolver after register_existing_titles(FolderA, chain).
InitSuffix ==
    /\ strategy \in Strategies
    /\ always_preserve_context \in BOOLEAN
    /\ \E chain \in SuffixChains : existing_titles = [NoTitles EXCEPT ![FolderA] = chain]
    /\ planned_titles = NoTitles
    /\ returned = [f \in FolderIds |-> <<>>]
    /\ last = NoCall
    /\ calls = 0
    /\ ResolverOnly

NextSuffix ==
    /\ calls < MaxSuffixCalls
    /\ \E c \in ResolveCalls : Resolve(c[1], c[2], c[3], c[4])

SpecSuffix == InitSuffix /\ [][NextSuffix]_vars

-----------------------------------------------------------------------------
(* SpecClassify: one classify call on a DocumentClassifier(min_confidence) *)

\* The thresholds the classifier is constructed with, in hundredths.
MinConfidences == {0, 8, 30, 40, 60, 68, 100, 101}

\* The titles classify is called with.
ClassifyTitles == {Plain(b) : b \in Bases} \cup {S8DashRetro, RetroParenS8}

\* The bodies classify is called with: up to seven retrospective keywords, and
\* bodies with keywords of other types, of two types, or of none.
ClassifyContents ==
    {{}, {"lorem ipsum"}, {"agenda"}, {"architecture"}, {"action items"},
     {"agenda", "action items"}, {"architecture", "agenda", "kudos"},
     {"kudos"}, {"kudos", "improve"}, {"kudos", "improve", "feedback"},
     {"kudos", "improve", "feedback", "went well"},
     {"kudos", "improve", "feedback", "went well", "keep doing"},
     {"kudos", "improve", "feedback", "went well", "keep doing", "stop doing"},
     {"kudos", "improve", "feedback", "went well", "keep doing", "stop doing",
      "action items"}}

\* The parent titles classify is called with.
ClassifyParents == {"[Sprint08]", "Sprint 9", "Team Space", ""}

InitClassify ==
    /\ min_confidence \in MinConfidences
    /\ classified = NoClassify
    /\ pc = "classifier"
    /\ strategy = "append-parent-name"
    /\ always_preserve_context = TRUE
    /\ existing_titles = NoTitles
    /\ planned_titles = NoTitles
    /\ returned = [f \in FolderIds |-> <<>>]
    /\ last = NoCall
    /\ calls = 0
    /\ args = NoArgs
    /\ proposal = NoProposal
    /\ plan = NoPlan
    /\ Untouched

\* classify(title, content, parent_title).  The classifier keeps no state
\* between calls: a behaviour makes one call.
Classify(title, content, parent_title) ==
    /\ classified = NoClassify
    /\ classified' = [op |-> "classify", title |-> title, content |-> content,
                      parent_title |-> parent_title,
                      result |-> classify(min_confidence, title, content, parent_title)]
    /\ UNCHANGED <<min_confidence, resolverVars, pipelineVars, analyzerVars, storeVars>>

NextClassify ==
    \E t \in ClassifyTitles, c \in ClassifyContents, p \in ClassifyParents : Classify(t, c, p)

SpecClassify == InitClassify /\ [][NextClassify]_vars

-----------------------------------------------------------------------------
(* Fractions: the similarities of the analyzer, computed exactly *)

RECURSIVE GCD(_, _)
GCD(a, b) == IF b = 0 THEN a ELSE GCD(b, a % b)

\* n/d reduced by the common divisor g.
Reduced(n, d, g) == [num |-> n \div g, den |-> d \div g]

\* The fraction n/d in lowest terms.
Frac(n, d) == IF n = 0 THEN [num |-> 0, den |-> 1] ELSE Reduced(n, d, GCD(n, d))

FracAdd(x, y) == Frac(x.num * y.den + y.num * x.den, x.den * y.den)
FracMul(x, y) == Frac(x.num * y.num, x.den * y.den)
FracDiv(x, k) == Frac(x.num, x.den * k)
FracGeq(x, y) == x.num * y.den >= y.num * x.den
FracGt(x, y) == x.num * y.den > y.num * x.den

Zero == [num |-> 0, den |-> 1]

\* The sequence seq, whose elements have the keys `keys`, in descending order
\* of key, elements of equal key in their order in seq:
\* list.sort(key=..., reverse=True).
SortDescending(seq, keys) ==
    [k \in DOMAIN seq |->
        seq[CHOOSE i \in DOMAIN seq :
                Cardinality({j \in DOMAIN seq :
                                \/ FracGt(keys[j], keys[i])
                                \/ keys[j] = keys[i] /\ j < i}) = k - 1]]

-----------------------------------------------------------------------------
(* UnionFind: [keys, parent, rank], keys being the insertion order of parent *)

UnionFindNew == [keys |-> <<>>, parent |-> <<>>, rank |-> <<>>]

\* `if x not in self.parent: self.parent[x] = x; self.rank[x] = 0`
WithKey(uf, x) ==
    IF x \in DOMAIN uf.parent THEN uf
    ELSE [keys   |-> Append(uf.keys, x),
          parent |-> uf.parent @@ (x :> x),
          rank   |-> uf.rank @@ (x :> 0)]

\* A path compression that makes x its own parent.
Compressed_to_self(r, x) == [uf |-> [r.uf EXCEPT !.parent[x] = x], root |-> r.root]

\* `self.parent[x] = self.find(self.parent[x])`, r being what the inner find gave.
Compressed(r, x) == [uf |-> [r.uf EXCEPT !.parent[x] = r.root], root |-> r.root]

\* find(x) for a known x: the root of x, and the structure after the path compression.
RECURSIVE find_known(_, _)
find_known(uf, x) ==
    IF uf.parent[x] # x
    THEN Compressed(find_known(uf, uf.parent[x]), x)
    ELSE [uf |-> uf, root |-> x]

\* find(x)
find(uf, x) == find_known(WithKey(uf, x), x)

\* The end of union: the roots rx and ry differ; the one of lower rank goes
\* under the other.
Linked(u, rx, ry) ==
    IF u.rank[rx] < u.rank[ry]
    THEN [u EXCEPT !.parent[rx] = ry]
    ELSE [u EXCEPT !.parent[ry] = rx,
                   !.rank[rx] = IF u.rank[rx] = u.rank[ry] THEN @ + 1 ELSE @]

union_roots(rx, fy) == IF rx = fy.root THEN fy.uf ELSE Linked(fy.uf, rx, fy.root)

union_second(fx, y) == union_roots(fx.root, find(fx.uf, y))

\* union(x, y): union by rank.
union(uf, x, y) == union_second(find(uf, x), y)

\* groups[root].append(x), groups being the dict as the sequence of its items
\* [root, members] in insertion order.
WithMember(groups, root, x) ==
    IF \E g \in DOMAIN groups : groups[g].root = root
    THEN [g \in DOMAIN groups |->
            IF groups[g].root = root
            THEN [groups[g] EXCEPT !.members = Append(@, x)]
            ELSE groups[g]]
    ELSE Append(groups, [root |-> root, members |-> <<x>>])

\* The loop of get_groups over keys[i..]; get_groups_found is its body after
\* `root = self.find(x)` gave f.
RECURSIVE get_groups_from(_, _, _)
RECURSIVE get_groups_found(_, _, _, _)
get_groups_found(f, groups, x, i) ==
    get_groups_from(f.uf, WithMember(groups, f.root, x), i + 1)

get_groups_from(uf, groups, i) ==
    IF i > Len(uf.keys) THEN groups
    ELSE get_groups_found(find(uf, uf.keys[i]), groups, uf.keys[i], i)

\* get_groups()
get_groups(uf) == get_groups_from(uf, <<>>, 1)

-----------------------------------------------------------------------------
(* SimilarityAnalyzer *)

STOP_WORDS ==
    {"the", "a", "an", "and", "or", "but", "in", "on", "at", "to", "for",
     "of", "with", "by", "from", "up", "about", "into", "through", "during",
     "sprint", "note", "notes", "doc", "document", "page"}

\* SimilarityAnalyzer(): title_weight 0.4, content_weight 0.6, link_threshold
\* 0.7, merge_threshold 0.85.
title_weight == [num |-> 2, den |-> 5]
content_weight == [num |-> 3, den |-> 5]
link_threshold == [num |-> 7, den |-> 10]
merge_threshold == [num |-> 17, den |-> 20]

\* re.findall(r'\b[a-z0-9]+\b', text.lower()) for the texts of the model.
ContextWords(ctx) ==
    CASE ctx = "Sprint 8"  -> {"sprint", "8"}
      [] ctx = "Sprint 08" -> {"sprint", "08"}
      [] ctx = "Sprint 9"  -> {"sprint", "9"}
      [] ctx = "Q3"        -> {"q3"}
      [] OTHER             -> {}

BaseWords(base) ==
    CASE base = "Retro"               -> {"retro"}
      [] base = "Sprint 8 Retro"      -> {"sprint", "8", "retro"}
      [] base = "Design Note"         -> {"design", "note"}
      [] base = "Notes"               -> {"notes"}
      [] base = "Sprint Review"       -> {"sprint", "review"}
      [] base = "Retro Meeting Notes" -> {"retro", "meeting", "notes"}
      [] OTHER                        -> {}

PostWords(tok) ==
    IF tok.kind = "sprint" THEN {"sprint", ToString(tok.n)} ELSE {ToString(tok.n)}

TitleWords(title) ==
    UNION {ContextWords(title.pre[i].ctx) : i \in DOMAIN title.pre}
        \cup BaseWords(title.base)
        \cup UNION {PostWords(title.post[i]) : i \in DOMAIN title.post}

ContentWords(content) == UNION {WordsOf(phrase) : phrase \in content}

\* tokenize(text, remove_stopwords), on the words of the text.
tokenize(words, remove_stopwords) ==
    IF remove_stopwords THEN words \ STOP_WORDS ELSE words

\* A similarity that divides by the size of the first set.
jaccard_similarity_of_first(set1, set2) ==
    IF set1 = {} THEN Zero
    ELSE Frac(Cardinality(set1 \cap set2), Cardinality(set1))

\* jaccard_similarity(set1, set2)
jaccard_similarity(set1, set2) ==
    IF set1 = {} /\ set2 = {} THEN Zero
    ELSE Frac(Cardinality(set1 \cap set2), Cardinality(set1 \cup set2))

\* extract_keywords(content): the tokens longer than two characters.  No body
\* of the model has more than max_keywords (50) of them.
extract_keywords(content) == {t \in tokenize(ContentWords(content), TRUE) : Len(t) > 2}

\* The SimilarityResult of compare.
SimilarityResult(page1, page2, title_sim, content_sim) ==
    [page1_id |-> page1.id, page2_id |-> page2.id,
     page1_title |-> page1.title, page2_title |-> page2.title,
     title_similarity |-> title_sim,
     content_similarity |-> content_sim,
     combined_similarity |-> FracAdd(FracMul(title_sim, title_weight),
                                     FracMul(content_sim, content_weight))]

\* compare(page1, page2)
compare(page1, page2) ==
    SimilarityResult(page1, page2,
        jaccard_similarity(tokenize(TitleWords(page1.title), TRUE),
                           tokenize(TitleWords(page2.title), TRUE)),
        IF page1.content # {} /\ page2.content # {}
        THEN jaccard_similarity(extract_keywords(page1.content),
                                extract_keywords(page2.content))
        ELSE Zero)

\* The index pairs (i, j), i < j, of a list of n elements in the order of the
\* two nested loops.
IndexPairs(n) ==
    LET count(i) == (i - 1) * n - ((i - 1) * i) \div 2
    IN  [k \in 1..((n * (n - 1)) \div 2) |->
            CHOOSE p \in (1..n) \X (1..n) : p[1] < p[2] /\ count(p[1]) + (p[2] - p[1]) = k]

Compared(pages, index_pairs) ==
    [k \in DOMAIN index_pairs |-> compare(pages[index_pairs[k][1]], pages[index_pairs[k][2]])]

CombinedSimilarities(results) == [k \in DOMAIN results |-> results[k].combined_similarity]

Sorted(results) == SortDescending(results, CombinedSimilarities(results))

\* find_similar_pairs(pages, threshold)
find_similar_pairs(pages, threshold) ==
    Sorted(SelectSeq(Compared(pages, IndexPairs(Len(pages))),
                     LAMBDA result : FracGeq(result.combined_similarity, threshold)))

\* `for page in pages: uf.find(page.get('id', ''))`, over pages[i..]
RECURSIVE find_all(_, _, _)
find_all(uf, pages, i) ==
    IF i > Len(pages) THEN uf ELSE find_all(find(uf, pages[i].id).uf, pages, i + 1)

\* `for result in similar_pairs: uf.union(result.page1_id, result.page2_id)`,
\* over similar_pairs[i..]
\* A loop that unites the pages of the first pair only.
union_all_first(uf, similar_pairs, i) ==
    IF similar_pairs = <<>> THEN uf
    ELSE union(uf, similar_pairs[1].page1_id, similar_pairs[1].page2_id)

RECURSIVE union_all(_, _, _)
union_all(uf, similar_pairs, i) ==
    IF i > Len(similar_pairs) THEN uf
    ELSE union_all(union(uf, similar_pairs[i].page1_id, similar_pairs[i].page2_id),
                   similar_pairs, i + 1)

\* len(content) of a body: its phrases joined by ". ".
RECURSIVE TextLength(_)
TextLength(content) ==
    IF content = {} THEN 0
    ELSE LET phrase == CHOOSE p \in content : TRUE
         IN  Len(phrase) + (IF content = {phrase} THEN 0 ELSE 2) + TextLength(content \ {phrase})

\* page_lookup.get(pid, {}): the last page of the list with that id.
PageOf(pages, pid) ==
    pages[CHOOSE i \in DOMAIN pages :
              pages[i].id = pid /\ \A j \in DOMAIN pages : pages[j].id = pid => j <= i]

\* The loop of _select_primary over page_ids[i..]; select_primary_longer is
\* its body once len(content) is known.
RECURSIVE select_primary_from(_, _, _, _, _)
RECURSIVE select_primary_longer(_, _, _, _, _, _)
select_primary_longer(page_ids, pages, i, best_id, best_length, length) ==
    IF length > best_length
    THEN select_primary_from(page_ids, pages, i + 1, page_ids[i], length)
    ELSE select_primary_from(page_ids, pages, i + 1, best_id, best_length)

select_primary_from(page_ids, pages, i, best_id, best_length) ==
    IF i > Len(page_ids) THEN best_id
    ELSE select_primary_longer(page_ids, pages, i, best_id, best_length,
                               TextLength(PageOf(pages, page_ids[i]).content))

\* _select_primary(page_ids, page_lookup)
_select_primary(page_ids, pages) == select_primary_from(page_ids, pages, 1, page_ids[1], 0)

\* pair_key in pair_similarities, for the pair of ids a and b.
PairRecorded(similar_pairs, a, b) ==
    \E k \in DOMAIN similar_pairs :
        {similar_pairs[k].page1_id, similar_pairs[k].page2_id} = {a, b}

\* pair_similarities[pair_key]: the similarity of the last result with that key.
PairSimilarity(similar_pairs, a, b) ==
    similar_pairs[CHOOSE k \in DOMAIN similar_pairs :
        /\ {similar_pairs[k].page1_id, similar_pairs[k].page2_id} = {a, b}
        /\ \A m \in DOMAIN similar_pairs :
              {similar_pairs[m].page1_id, similar_pairs[m].page2_id} = {a, b} => m <= k
       ].combined_similarity

RECURSIVE FracSum(_, _)
FracSum(seq, i) == IF i > Len(seq) THEN Zero ELSE FracAdd(seq[i], FracSum(seq, i + 1))

\* total_sim / pair_count if pair_count > 0 else threshold
Mean(sims, threshold) ==
    IF Len(sims) > 0 THEN FracDiv(FracSum(sims, 1), Len(sims)) ELSE threshold

\* The similarities recorded for the pairs of members of a group, in the order
\* of the two loops.
RecordedSimilarities(member_ids, similar_pairs, member_pairs) ==
    [k \in DOMAIN member_pairs |->
        PairSimilarity(similar_pairs, member_ids[member_pairs[k][1]],
                       member_ids[member_pairs[k][2]])]

\* avg_sim of group_similar for the group with these members.
avg_sim(member_ids, similar_pairs, threshold) ==
    Mean(RecordedSimilarities(member_ids, similar_pairs,
             SelectSeq(IndexPairs(Len(member_ids)),
                       LAMBDA p : PairRecorded(similar_pairs, member_ids[p[1]], member_ids[p[2]]))),
         threshold)

\* The SimilarityGroup of group_similar.
SimilarityGroup(group_id, member_ids, pages, avg) ==
    [group_id |-> group_id,
     page_ids |-> member_ids,
     page_titles |-> [m \in DOMAIN member_ids |-> PageOf(pages, member_ids[m]).title],
     avg_similarity |-> avg,
     primary_page_id |-> _select_primary(member_ids, pages),
     recommendation |-> IF FracGeq(avg, merge_threshold) THEN "merge" ELSE "link"]

\* The groups of group_similar before they are sorted: one for every raw
\* group of two members or more.
Groups(pages, threshold, similar_pairs, raw_groups) ==
    [k \in DOMAIN raw_groups |->
        SimilarityGroup(k - 1, raw_groups[k].members, pages,
                        avg_sim(raw_groups[k].members, similar_pairs, threshold))]

AvgSimilarities(groups) == [k \in DOMAIN groups |-> groups[k].avg_similarity]

SortedGroups(groups) == SortDescending(groups, AvgSimilarities(groups))

\* group_similar once find_similar_pairs gave similar_pairs.
group_pairs(pages, threshold, similar_pairs) ==
    SortedGroups(
        Groups(pages, threshold, similar_pairs,
               SelectSeq(get_groups(union_all(find_all(UnionFindNew, pages, 1),
                                              similar_pairs, 1)),
                         LAMBDA g : Len(g.members) >= 2)))

\* group_similar(pages, threshold)
group_similar(pages, threshold) ==
    group_pairs(pages, threshold, find_similar_pairs(pages, threshold))

-----------------------------------------------------------------------------
(* StructureProposer *)

\* StructureProposer.TARGET_FOLDERS; doc_type "" is None.
TARGET_FOLDERS ==
    <<[folder_name |-> "01-Sprint-Reviews", doc_type |-> "sprint-review", order |-> 1],
      [folder_name |-> "02-Design-Notes",   doc_type |-> "design-note",   order |-> 2],
      [folder_name |-> "03-Story-Notes",    doc_type |-> "story-note",    order |-> 3],
      [folder_name |-> "04-Meeting-Notes",  doc_type |-> "meeting-notes", order |-> 4],
      [folder_name |-> "05-Retrospectives", doc_type |-> "retrospective", order |-> 5],
      [folder_name |-> "06-Technical-Docs", doc_type |-> "technical-doc", order |-> 6],
      [folder_name |-> "99-Archive",        doc_type |-> "",              order |-> 99],
      [folder_name |-> "99-Uncategorized",  doc_type |-> "uncategorized", order |-> 100]>>

\* self.type_to_folder.get(doc_type, "99-Uncategorized")
type_to_folder(doc_type) ==
    IF \E k \in DOMAIN TARGET_FOLDERS : TARGET_FOLDERS[k].doc_type = doc_type /\ doc_type # ""
    THEN TARGET_FOLDERS[CHOOSE k \in DOMAIN TARGET_FOLDERS :
                            TARGET_FOLDERS[k].doc_type = doc_type].folder_name
    ELSE "99-Uncategorized"

\* "[ARCHIVED] "
ArchivedPrefix == <<"[", "A", "R", "C", "H", "I", "V", "E", "D", "]", " ">>

\* The characters of the folder titles of the model.
Spelled(title) ==
    CASE title = "01-Sprint-Reviews" ->
            <<"0", "1", "-", "S", "p", "r", "i", "n", "t", "-", "R", "e", "v", "i", "e", "w", "s">>
      [] title = "02-Design-Notes" ->
            <<"0", "2", "-", "D", "e", "s", "i", "g", "n", "-", "N", "o", "t", "e", "s">>
      [] title = "03-Story-Notes" ->
            <<"0", "3", "-", "S", "t", "o", "r", "y", "-", "N", "o", "t", "e", "s">>
      [] title = "04-Meeting-Notes" ->
            <<"0", "4", "-", "M", "e", "e", "t", "i", "n", "g", "-", "N", "o", "t", "e", "s">>
      [] title = "05-Retrospectives" ->
            <<"0", "5", "-", "R", "e", "t", "r", "o", "s", "p", "e", "c", "t", "i", "v", "e", "s">>
      [] title = "06-Technical-Docs" ->
            <<"0", "6", "-", "T", "e", "c", "h", "n", "i", "c", "a", "l", "-", "D", "o", "c", "s">>
      [] title = "99-Archive" ->
            <<"9", "9", "-", "A", "r", "c", "h", "i", "v", "e">>
      [] title = "99-Uncategorized" ->
            <<"9", "9", "-", "U", "n", "c", "a", "t", "e", "g", "o", "r", "i", "z", "e", "d">>
      [] title = "[Sprint08]" -> <<"[", "S", "p", "r", "i", "n", "t", "0", "8", "]">>
      [] title = "Sprint 9" -> <<"S", "p", "r", "i", "n", "t", " ", "9">>
      [] title = "sprint-10" -> <<"s", "p", "r", "i", "n", "t", "-", "1", "0">>
      [] title = "Scaled Sprint 3 Notes" ->
            <<"S", "c", "a", "l", "e", "d", " ", "S", "p", "r", "i", "n", "t", " ", "3",
              " ", "N", "o", "t", "e", "s">>
      [] title = "Sprint Planning" ->
            <<"S", "p", "r", "i", "n", "t", " ", "P", "l", "a", "n", "n", "i", "n", "g">>
      [] title = "Sprint 9 Demo" ->
            <<"S", "p", "r", "i", "n", "t", " ", "9", " ", "D", "e", "m", "o">>
      [] title = "Team Space" -> <<"T", "e", "a", "m", " ", "S", "p", "a", "c", "e">>
      [] OTHER -> <<>>

\* The folder titles the model spells.
SpelledTitles ==
    {"01-Sprint-Reviews", "02-Design-Notes", "03-Story-Notes", "04-Meeting-Notes",
     "05-Retrospectives", "06-Technical-Docs", "99-Archive", "99-Uncategorized",
     "[Sprint08]", "Sprint 9", "sprint-10", "Scaled Sprint 3 Notes", "Sprint Planning",
     "Sprint 9 Demo", "Team Space"}

\* The characters of a folder title: a spelled title, or a spelled title
\* behind "[ARCHIVED] " once or twice.
Characters(title) ==
    IF title \in SpelledTitles THEN Spelled(title)
    ELSE IF \E t \in SpelledTitles : title = "[ARCHIVED] " \o t
    THEN ArchivedPrefix \o Spelled(CHOOSE t \in SpelledTitles : title = "[ARCHIVED] " \o t)
    ELSE ArchivedPrefix \o ArchivedPrefix
            \o Spelled(CHOOSE t \in SpelledTitles : title = "[ARCHIVED] [ARCHIVED] " \o t)

UpperCase == <<"A", "B", "C", "D", "E", "F", "G", "H", "I", "J", "K", "L", "M",
               "N", "O", "P", "Q", "R", "S", "T", "U", "V", "W", "X", "Y", "Z">>
LowerCase == <<"a", "b", "c", "d", "e", "f", "g", "h", "i", "j", "k", "l", "m",
               "n", "o", "p", "q", "r", "s", "t", "u", "v", "w", "x", "y", "z">>

\* re.IGNORECASE: a character with its case folded.
Folded(c) ==
    IF \E k \in DOMAIN UpperCase : UpperCase[k] = c
    THEN LowerCase[CHOOSE k \in DOMAIN UpperCase : UpperCase[k] = c]
    ELSE c

Digits == {"0", "1", "2", "3", "4", "5", "6", "7", "8", "9"}

\* The literal `word` stands in text at position i, case ignored.
LiteralAt(text, i, word) ==
    /\ i + Len(word) - 1 <= Len(text)
    /\ \A k \in DOMAIN word : Folded(text[i + k - 1]) = word[k]

\* The position behind the longest run of characters of `class` from i on.
RECURSIVE Past(_, _, _)
Past(text, i, class) ==
    IF i <= Len(text) /\ text[i] \in class THEN Past(text, i + 1, class) ELSE i

\* The position behind `\[?` at position i.
PastBracket(text, i) == IF i <= Len(text) /\ text[i] = "[" THEN i + 1 ELSE i

\* `Scaled[-\s]*Sprint` matches in text from position i on.
ScaledSprintAt(text, i) ==
    /\ LiteralAt(text, i, <<"s", "c", "a", "l", "e", "d">>)
    /\ LiteralAt(text, Past(text, i + 6, {"-", " "}), <<"s", "p", "r", "i", "n", "t">>)

\* The rest of `\d+\]?$` from the first digit position i on: one digit at
\* least, then nothing or "]" and then nothing.
NumberedToEnd(text, i, behind) ==
    /\ behind > i
    /\ \/ behind = Len(text) + 1
       \/ behind = Len(text) /\ text[behind] = "]"

\* `Sprint[-\s]*\d+\]?$` matches in text from position i on.
SprintNumberAt(text, i) ==
    /\ LiteralAt(text, i, <<"s", "p", "r", "i", "n", "t">>)
    /\ NumberedToEnd(text, Past(text, i + 6, {"-", " "}),
                     Past(text, Past(text, i + 6, {"-", " "}), Digits))

\* re.search of the two patterns with their anchor ^ removed.
_is_sprint_folder_unanchored(title) ==
    \E i \in 1..(Len(Characters(title)) + 1) :
        \/ ScaledSprintAt(Characters(title), PastBracket(Characters(title), i))
        \/ SprintNumberAt(Characters(title), PastBracket(Characters(title), i))

\* _is_sprint_folder(title): re.search, with re.IGNORECASE, of
\*   ^\[?Scaled[-\s]*Sprint      ^\[?Sprint[-\s]*\d+\]?$
_is_sprint_folder(title) ==
    \/ ScaledSprintAt(Characters(title), PastBracket(Characters(title), 1))
    \/ SprintNumberAt(Characters(title), PastBracket(Characters(title), 1))

\* f"[ARCHIVED] {folder_title}"
ArchivedTitle(folder_title) == "[ARCHIVED] " \o folder_title

\* The FolderCreation of a target folder.
FolderCreation(target_folder, parent_id) ==
    [folder_name |-> target_folder.folder_name, parent_id |-> parent_id,
     doc_type |-> target_folder.doc_type, order |-> target_folder.order]

FolderCreations(target_folders, parent_id) ==
    [k \in DOMAIN target_folders |-> FolderCreation(target_folders[k], parent_id)]

\* Step 1 of propose: the target folders no existing folder is titled as.
folders_to_create(parent_id, existing_folders) ==
    FolderCreations(
        SelectSeq(TARGET_FOLDERS,
                  LAMBDA tf : \A k \in DOMAIN existing_folders :
                                  existing_folders[k].title # tf.folder_name),
        parent_id)

\* classify_batch(pages): the classification of each page, in page order.
classify_batch(min_conf, pages) ==
    [i \in DOMAIN pages |->
        classify(min_conf, pages[i].title, pages[i].content, pages[i].parent_title)]

\* A summary that tells which types were found, not how many pages of each.
get_classification_summary_presence(results) ==
    [t \in Range(DocumentTypes) |->
        IF \E i \in DOMAIN results : results[i].doc_type = t THEN 1 ELSE 0]

\* get_classification_summary(results)
get_classification_summary(results) ==
    [t \in Range(DocumentTypes) |->
        Cardinality({i \in DOMAIN results : results[i].doc_type = t})]

\* The target folder name of each page, in page order.
FolderNames(results) == [i \in DOMAIN results |-> type_to_folder(results[i].doc_type)]

\* The (folder_name, page index) pairs in the order the two loops of step 5
\* visit them: the keys of folder_pages in insertion order, which is the order
\* of the first page of each folder, and under each key its pages in page order.
ResolutionOrderOf(names) ==
    LET First(i) == CHOOSE j \in DOMAIN names :
                        names[j] = names[i] /\ \A m \in 1..(j - 1) : names[m] # names[i]
        Before(i) == {j \in DOMAIN names : First(j) < First(i) \/ (First(j) = First(i) /\ j < i)}
    IN  [k \in DOMAIN names |->
            LET i == CHOOSE j \in DOMAIN names : Cardinality(Before(j)) = k - 1
            IN  [folder_name |-> names[i], page |-> i]]

ResolutionOrder(results) == ResolutionOrderOf(FolderNames(results))

\* The target folder id of step 5: the id of the first existing folder with
\* that title, the placeholder when there is none or its id is empty.
target_folder_id_of(existing_folders, folder_name) ==
    LET matches == {k \in DOMAIN existing_folders : existing_folders[k].title = folder_name}
        first == CHOOSE k \in matches : \A m \in matches : k <= m
    IN  IF matches # {} /\ existing_folders[first].id # ""
        THEN existing_folders[first].id
        ELSE Placeholder(folder_name)

\* target_folder_id.startswith("NEW:")
IsPlaceholder(folder_id) ==
    \E k \in DOMAIN TARGET_FOLDERS : folder_id = Placeholder(TARGET_FOLDERS[k].folder_name)

\* The PageMove of a page resolved into a folder.
PageMove(page, classification, folder_name, target_folder_id, resolution) ==
    [page_id |-> page.id,
     original_title |-> page.title,
     resolved_title |-> resolution.resolved_title,
     source_parent_id |-> page.parent_id,
     source_parent_title |-> page.parent_title,
     target_folder_name |-> folder_name,
     target_folder_id |-> IF IsPlaceholder(target_folder_id) THEN "" ELSE target_folder_id,
     doc_type |-> classification.doc_type,
     confidence |-> classification.confidence,
     name_changed |-> page.title # resolution.resolved_title]

\* The state of propose when it starts to resolve names, after
\* register_existing_pages and reset_planned.
ResolutionStart(ex) ==
    [raised |-> FALSE, ex |-> ex, pl |-> NoTitles, moves |-> <<>>,
     collision_resolutions |-> 0, context_preservations |-> 0,
     returned |-> [f \in FolderIds |-> <<>>],
     last |-> [NoCall EXCEPT !.op = "reset_planned"], calls |-> 2]

\* The body of the inner loop of step 5 once resolve gave `resolution`: the
\* ValueError ends propose, otherwise the move is appended and counted.
Resolved(st, page, classification, folder_name, target_folder_id, context, resolution) ==
    IF resolution.raised
    THEN [st EXCEPT !.raised = TRUE, !.calls = @ + 1,
                    !.last = [op |-> "resolve", title |-> page.title,
                              folder |-> target_folder_id, context |-> context,
                              force_context |-> FALSE,
                              taken |-> all_titles(st.ex, st.pl, target_folder_id),
                              result |-> resolution]]
    ELSE [st EXCEPT
            !.pl = RegisterPlanned(@, target_folder_id, resolution.resolved_title),
            !.moves = Append(@, PageMove(page, classification, folder_name,
                                         target_folder_id, resolution)),
            !.returned[target_folder_id] = Append(@, resolution.resolved_title),
            !.collision_resolutions = IF resolution.collision_avoided THEN @ + 1 ELSE @,
            !.context_preservations = IF resolution.context_preserved THEN @ + 1 ELSE @,
            !.calls = @ + 1,
            !.last = [op |-> "resolve", title |-> page.title,
                      folder |-> target_folder_id, context |-> context,
                      force_context |-> FALSE,
                      taken |-> all_titles(st.ex, st.pl, target_folder_id),
                      result |-> resolution]]

\* The resolve call of step 5 for one page.
ResolvePage(strat, always, st, page, classification, folder_name, target_folder_id) ==
    Resolved(st, page, classification, folder_name, target_folder_id,
             classification.source_sprint,
             resolve(strat, always, st.ex, st.pl, page.title, target_folder_id,
                     classification.source_sprint, FALSE))

\* The loops of step 5 over order[i..].
RECURSIVE resolve_pages_from(_, _, _, _, _, _, _, _)
resolve_pages_from(strat, always, pages, results, existing_folders, order, i, st) ==
    IF i > Len(order) \/ st.raised THEN st
    ELSE resolve_pages_from(strat, always, pages, results, existing_folders, order, i + 1,
             ResolvePage(strat, always, st, pages[order[i].page], results[order[i].page],
                         order[i].folder_name,
                         target_folder_id_of(existing_folders, order[i].folder_name)))

\* The ArchiveMove of a sprint folder.
ArchiveMoves(sprint_folders) ==
    [k \in DOMAIN sprint_folders |->
        [folder_id |-> sprint_folders[k].id,
         folder_title |-> sprint_folders[k].title,
         new_title |-> ArchivedTitle(sprint_folders[k].title)]]

\* Step 6 of propose.
folders_to_archive(existing_folders) ==
    ArchiveMoves(SelectSeq(existing_folders, LAMBDA f : _is_sprint_folder(f.title)))

\* The LinkSuggestion of each group.
LinkSuggestions(link_groups) ==
    [k \in DOMAIN link_groups |->
        [page_ids |-> link_groups[k].page_ids,
         page_titles |-> link_groups[k].page_titles,
         similarity |-> link_groups[k].avg_similarity]]

\* A step 7 that suggests a link for every group.
link_suggestions_unfiltered(pages) ==
    LinkSuggestions(group_similar(pages, link_threshold))

\* Step 7 of propose.
link_suggestions(pages) ==
    LinkSuggestions(SelectSeq(group_similar(pages, link_threshold),
                              LAMBDA group : group.recommendation = "link"))

\* What propose leaves when its name resolution ended in state st.  raised
\* tells whether the call ended in the ValueError of resolve; proposal is the
\* local RestructureProposal as the call leaves it; ex, pl are the resolver's
\* title sets after the call and returned, last, calls its history.
Proposed(parent_id, pages, existing_folders, results, st) ==
    [raised |-> st.raised, ex |-> st.ex, pl |-> st.pl,
     returned |-> st.returned, last |-> st.last, calls |-> st.calls,
     proposal |->
        [returned |-> TRUE,
         parent_id |-> parent_id,
         folders_to_create |-> folders_to_create(parent_id, existing_folders),
         pages_to_move |-> st.moves,
         folders_to_archive |-> IF st.raised THEN <<>>
                                ELSE folders_to_archive(existing_folders),
         link_suggestions |-> IF st.raised THEN <<>> ELSE link_suggestions(pages),
         total_pages |-> IF st.raised THEN 0 ELSE Len(pages),
         pages_by_type |-> IF st.raised THEN <<>>
                           ELSE get_classification_summary(results),
         collision_resolutions |-> st.collision_resolutions,
         context_preservations |-> st.context_preservations]]

\* propose once classify_batch gave results.
propose_classified(strat, always, ex, parent_id, pages, existing_folders, results) ==
    Proposed(parent_id, pages, existing_folders, results,
             resolve_pages_from(strat, always, pages, results, existing_folders,
                                ResolutionOrder(results), 1,
                                ResolutionStart(register_existing_pages(ex, pages))))

\* propose(parent_id, parent_title, space_id, pages, existing_folders) on a
\* proposer whose classifier has threshold min_conf and whose resolver is
\* configured (strat, always) and holds the existing titles ex.
propose(strat, always, min_conf, ex, parent_id, pages, existing_folders) ==
    propose_classified(strat, always, ex, parent_id, pages, existing_folders,
                       classify_batch(min_conf, pages))

\* A propose that hands the proposal built so far to its caller.
ProposalOfCaller_partial(out) == out.proposal

\* What the caller of propose holds after the call: the proposal when the call
\* returned, nothing when the ValueError propagated out of it.
ProposalOfCaller(out) == IF out.raised THEN NoProposal ELSE out.proposal

-----------------------------------------------------------------------------
(* OperationPlanner *)

\* str(uuid.uuid4()) of the k-th operation of a plan: an id no other operation has.
uuid4(k) == "uuid-" \o ToString(k)

\* Step 1 of create_plan: one create_folder operation per folder to create.
folder_operations(prop) ==
    [k \in DOMAIN prop.folders_to_create |->
        [operation_type |-> "create_folder",
         target_ids |-> <<prop.parent_id>>,
         operation_data |-> [folder_name |-> prop.folders_to_create[k].folder_name,
                             parent_id |-> prop.folders_to_create[k].parent_id,
                             order |-> prop.folders_to_create[k].order],
         depends_on |-> <<>>,
         operation_id |-> uuid4(k)]]

\* A planner that forgets the create_folder operations it emitted.
HasFolderOp_never(folder_ops, folder_name) == FALSE

\* folder_name in folder_op_ids
HasFolderOp(folder_ops, folder_name) ==
    \E k \in DOMAIN folder_ops : folder_ops[k].operation_data.folder_name = folder_name

\* folder_op_ids[folder_name]: the id of the last operation for that name.
folder_op_id(folder_ops, folder_name) ==
    folder_ops[CHOOSE k \in DOMAIN folder_ops :
        /\ folder_ops[k].operation_data.folder_name = folder_name
        /\ \A m \in DOMAIN folder_ops :
              folder_ops[m].operation_data.folder_name = folder_name => m <= k].operation_id

\* The keys of moves_by_folder in insertion order.
RECURSIVE move_folders_from(_, _, _)
move_folders_from(moves, seen, i) ==
    IF i > Len(moves) THEN seen
    ELSE move_folders_from(moves,
                           IF moves[i].target_folder_name \in Range(seen) THEN seen
                           ELSE Append(seen, moves[i].target_folder_name),
                           i + 1)

\* The restructure operation of one key of moves_by_folder.
move_operation(prop, folder_ops, folder_name, moves, k) ==
    [operation_type |-> "restructure",
     target_ids |-> [m \in DOMAIN moves |-> moves[m].page_id],
     operation_data |->
         [target_folder_name |-> folder_name,
          target_folder_id |-> moves[1].target_folder_id,
          moves |-> [m \in DOMAIN moves |->
                        [page_id |-> moves[m].page_id,
                         original_title |-> moves[m].original_title,
                         new_title |-> IF moves[m].name_changed
                                       THEN <<moves[m].resolved_title>> ELSE <<>>]],
          parent_id |-> prop.parent_id],
     depends_on |-> IF HasFolderOp(folder_ops, folder_name)
                    THEN <<folder_op_id(folder_ops, folder_name)>> ELSE <<>>,
     operation_id |-> uuid4(k)]

move_operations_of(prop, folder_ops, names) ==
    [k \in DOMAIN names |->
        move_operation(prop, folder_ops, names[k],
                       SelectSeq(prop.pages_to_move,
                                 LAMBDA move : move.target_folder_name = names[k]),
                       Len(folder_ops) + k)]

\* Step 2 of create_plan: one restructure operation per key of moves_by_folder.
move_operations(prop, folder_ops) ==
    move_operations_of(prop, folder_ops, move_folders_from(prop.pages_to_move, <<>>, 1))

\* Only the first operation's id.
OperationIds_first(ops) == [k \in DOMAIN ops \cap {1} |-> ops[k].operation_id]

\* [op.operation_id for op in ops]
OperationIds(ops) == [k \in DOMAIN ops |-> ops[k].operation_id]

\* Step 3 of create_plan: one archive operation per folder to archive;
\* `first` operations precede them in the plan.
archive_operations(prop, folder_ops, move_ops, first) ==
    [k \in DOMAIN prop.folders_to_archive |->
        [operation_type |-> "archive",
         target_ids |-> <<prop.folders_to_archive[k].folder_id>>,
         operation_data |-> [folder_id |-> prop.folders_to_archive[k].folder_id,
                             original_title |-> prop.folders_to_archive[k].folder_title,
                             new_title |-> prop.folders_to_archive[k].new_title,
                             archive_folder_name |-> "99-Archive"],
         depends_on |-> OperationIds(move_ops)
                            \o (IF HasFolderOp(folder_ops, "99-Archive")
                                THEN <<folder_op_id(folder_ops, "99-Archive")>> ELSE <<>>),
         operation_id |-> uuid4(first + k)]]

\* Link operations that also wait for the operation emitted just before them.
link_operations_chained(prop, move_ops, first) ==
    [k \in DOMAIN prop.link_suggestions |->
        [operation_type |-> "add_link",
         target_ids |-> prop.link_suggestions[k].page_ids,
         operation_data |-> [page_ids |-> prop.link_suggestions[k].page_ids,
                             page_titles |-> prop.link_suggestions[k].page_titles,
                             link_type |-> "related"],
         depends_on |-> OperationIds(move_ops) \o <<uuid4(first + k - 1)>>,
         operation_id |-> uuid4(first + k)]]

\* Step 4 of create_plan: one add_link operation per link suggestion;
\* `first` operations precede them in the plan.
link_operations(prop, move_ops, first) ==
    [k \in DOMAIN prop.link_suggestions |->
        [operation_type |-> "add_link",
         target_ids |-> prop.link_suggestions[k].page_ids,
         operation_data |-> [page_ids |-> prop.link_suggestions[k].page_ids,
                             page_titles |-> prop.link_suggestions[k].page_titles,
                             link_type |-> "related"],
         depends_on |-> OperationIds(move_ops),
         operation_id |-> uuid4(first + k)]]

\* A plan that lists the restructure operations ahead of the create_folder ones.
OperationPlan_moves_first(folder_ops, move_ops, archive_ops, link_ops) ==
    [created |-> TRUE,
     operations |-> move_ops \o folder_ops \o archive_ops \o link_ops,
     folder_operations |-> folder_ops,
     move_operations |-> move_ops,
     archive_operations |-> archive_ops,
     link_operations |-> link_ops]

\* The OperationPlan of create_plan.
OperationPlan(folder_ops, move_ops, archive_ops, link_ops) ==
    [created |-> TRUE,
     operations |-> folder_ops \o move_ops \o archive_ops \o link_ops,
     folder_operations |-> folder_ops,
     move_operations |-> move_ops,
     archive_operations |-> archive_ops,
     link_operations |-> link_ops]

plan_links(prop, folder_ops, move_ops, archive_ops) ==
    OperationPlan(folder_ops, move_ops, archive_ops,
                  link_operations(prop, move_ops,
                                  Len(folder_ops) + Len(move_ops) + Len(archive_ops)))

plan_archives(prop, folder_ops, move_ops) ==
    plan_links(prop, folder_ops, move_ops,
               archive_operations(prop, folder_ops, move_ops, Len(folder_ops) + Len(move_ops)))

plan_moves(prop, folder_ops) ==
    plan_archives(prop, folder_ops, move_operations(prop, folder_ops))

\* create_plan(proposal)
create_plan(prop) == plan_moves(prop, folder_operations(prop))

-----------------------------------------------------------------------------
(* SpecPipeline: propose on a StructureProposer, then create_plan on the    *)
(* proposal it returned                                                     *)

\* Longest page list propose is called with.
MaxPages == 3

Sprint08Id == RealId("[Sprint08]")
Sprint9Id == RealId("Sprint 9")

Page(id, title, content, parent_title) ==
    [id |-> id, title |-> title, content |-> content,
     parent_id |-> RealId(parent_title), parent_title |-> parent_title]

\* The pages found under the root: retrospectives of two sprints with close
\* bodies, a retrospective that stands in the retrospectives folder already,
\* with the body of the first, and pages of two other types.
Pages ==
    {Page("p1", Retro, {"kudos", "improve"}, "[Sprint08]"),
     Page("p2", Retro, {"kudos", "improve", "feedback"}, "Sprint 9"),
     Page("p3", Retro, {"kudos", "improve"}, "05-Retrospectives"),
     Page("p4", Plain("Design Note"), {"architecture"}, "[Sprint08]"),
     Page("p5", Plain("Notes"), {}, RootTitle)}

\* The page lists propose is called with: no page twice.
PageLists ==
    {pages \in UNION {[1..n -> Pages] : n \in 0..MaxPages} :
        \A i, j \in DOMAIN pages : i # j => pages[i] # pages[j]}

Folder(title) == [id |-> RealId(title), title |-> title]

\* The lists of existing folders propose is called with, ordered by title.
FolderLists ==
    {<<>>,
     <<Folder("05-Retrospectives")>>,
     <<Folder("99-Archive"), Folder("[Sprint08]")>>,
     <<Folder("05-Retrospectives"), Folder("Sprint 9"), Folder("[Sprint08]")>>}

S08DashRetro == WithParentName("Sprint 08", Retro)        \* "Sprint 08 - Retro"
S08BracketRetro == WithBracketContext("Sprint 08", Retro) \* "[Sprint 08] Retro"

\* The titles of the existing retrospectives folder when every title a
\* retrospective of Sprint 08 can be resolved to is taken, with its numbered
\* variants up to the safety limit.
FullFolder ==
    [NoTitles EXCEPT ![FolderA] = Chain(Retro, SuffixLimit)
                                      \cup Chain(S08DashRetro, SuffixLimit)
                                      \cup Chain(S08BracketRetro, SuffixLimit)]

\* StructureProposer(name_resolver=NameResolver(strategy, always_preserve_context))
\* with a default classifier and analyzer; the resolver is fresh, or one with
\* the default always_preserve_context that was told of a full folder
\* (register_existing_titles).  The caller has called nothing yet.
InitPipeline ==
    /\ strategy \in Strategies
    /\ always_preserve_context \in BOOLEAN
    /\ \/ existing_titles = NoTitles
       \/ always_preserve_context /\ existing_titles = FullFolder
    /\ planned_titles = NoTitles
    /\ returned = [f \in FolderIds |-> <<>>]
    /\ last = NoCall
    /\ calls = 0
    /\ min_confidence = DefaultMinConfidence
    /\ classified = NoClassify
    /\ pc = "idle"
    /\ args = NoArgs
    /\ proposal = NoProposal
    /\ plan = NoPlan
    /\ Untouched

\* The caller and the resolver after a propose call that left `out`.
ProposeReturns(out) ==
    /\ existing_titles' = out.ex
    /\ planned_titles' = out.pl
    /\ returned' = out.returned
    /\ last' = out.last
    /\ calls' = calls + out.calls
    /\ proposal' = ProposalOfCaller(out)
    /\ pc' = IF out.raised THEN "raised" ELSE "proposed"

\* proposal = proposer.propose(RootId, RootTitle, space_id, pages, existing_folders)
Propose(pages, existing_folders) ==
    /\ pc = "idle"
    /\ ProposeReturns(propose(strategy, always_preserve_context, min_confidence,
                              existing_titles, RootId, pages, existing_folders))
    /\ args' = [pages |-> pages, existing_folders |-> existing_folders]
    /\ runs' = runs + 1
    /\ UNCHANGED <<strategy, always_preserve_context, classifierVars, plan>>
    /\ UNCHANGED <<analyzerVars, storeVars>>

\* plan = planner.create_plan(proposal)
CreatePlan ==
    /\ pc = "proposed"
    /\ plan' = create_plan(proposal)
    /\ pc' = "planned"
    /\ UNCHANGED <<resolverVars, classifierVars, args, proposal, runs>>
    /\ UNCHANGED <<analyzerVars, storeVars>>

NextPipeline ==
    \/ \E pages \in PageLists, existing_folders \in FolderLists : Propose(pages, existing_folders)
    \/ CreatePlan

SpecPipeline == InitPipeline /\ [][NextPipeline]_vars

-----------------------------------------------------------------------------
(* SpecNaming: the two ways titles get resolved, a NameResolver driven      *)
(* through its interface and one driven by propose                          *)

InitNaming == InitResolver \/ InitPipeline

NextNaming ==
    \/ pc = "resolver" /\ NextResolver
    \/ NextPipeline

SpecNaming == InitNaming /\ [][NextNaming]_vars

-----------------------------------------------------------------------------
(* SpecReuse: propose called more than once on the same StructureProposer   *)

\* Number of propose calls one proposer serves.
MaxRuns == 2

\* Longest page list of a propose call on a proposer that is used again.
MaxReusedPages == 1

ReusedPageLists == {pages \in PageLists : Len(pages) <= MaxReusedPages}

\* StructureProposer() freshly constructed: its resolver holds no title.
InitReuse == InitPipeline /\ existing_titles = NoTitles

\* proposer.propose(...) on the proposer that served an earlier propose call.
\* propose registers the pages and resets the planned titles itself; the
\* existing titles of the earlier calls are still in the resolver.
ProposeAgain(pages, existing_folders) ==
    /\ pc \in {"proposed", "raised"}
    /\ runs < MaxRuns
    /\ ProposeReturns(propose(strategy, always_preserve_context, min_confidence,
                              existing_titles, RootId, pages, existing_folders))
    /\ args' = [pages |-> pages, existing_folders |-> existing_folders]
    /\ runs' = runs + 1
    /\ UNCHANGED <<strategy, always_preserve_context, classifierVars, plan>>
    /\ UNCHANGED <<analyzerVars, storeVars>>

NextReuse ==
    \/ \E pages \in ReusedPageLists, existing_folders \in FolderLists : Propose(pages, existing_folders)
    \/ \E pages \in ReusedPageLists, existing_folders \in FolderLists : ProposeAgain(pages, existing_folders)

SpecReuse == InitReuse /\ [][NextReuse]_vars

-----------------------------------------------------------------------------
(* The content_operations table: save_to_db, the approvals and the executor *)

\* HANDLERS: the operation types of target type confluence that have a handler.
HANDLERS == {"merge", "update", "restructure", "move", "label", "archive"}

\* get_handler(operation, conn, dry_run) is not None
get_handler(operation) ==
    operation.target_type = "confluence" /\ operation.operation_type \in HANDLERS

\* The row the INSERT of save_to_db writes for op; approved_at 0 is NULL.
InsertedRow(op) ==
    [id |-> op.operation_id, operation_type |-> op.operation_type,
     target_type |-> "confluence", status |-> "pending", approved_at |-> 0]

\* An INSERT on a connection in autocommit mode: the row is durable at once.
rows_after_insert_autocommit(committed, row) == (row.id :> row) @@ committed

\* The committed rows after an INSERT inside the open transaction: as before.
rows_after_insert(committed, row) == committed

\* The committed rows after conn.commit() of the transaction that inserted `inserted`.
RECURSIVE rows_after_commit(_, _, _)
rows_after_commit(committed, inserted, i) ==
    IF i > Len(inserted) THEN committed
    ELSE rows_after_commit((inserted[i].id :> inserted[i]) @@ committed, inserted, i + 1)

\* A save_to_db that wants a connection for a dry run too.
connection_required_always(conn, dry_run) == ~conn

\* `not self.conn and not dry_run`
connection_required(conn, dry_run) == ~conn /\ ~dry_run

\* planner = OperationPlanner(); plan = planner.create_plan(proposal): a
\* planner constructed without db_connection.
PlanDetached ==
    /\ pc = "proposed"
    /\ plan' = create_plan(proposal)
    /\ pc' = "planned"
    /\ saved' = [saved EXCEPT !.conn = FALSE]
    /\ UNCHANGED <<resolverVars, classifierVars, args, proposal, runs>>
    /\ UNCHANGED <<analyzerVars, rows, tx, clock, executor>>

\* save_to_db(plan, dry_run=dry_run) raises ValueError at its first statement.
SaveRefused(dry_run) ==
    /\ pc = "planned"
    /\ connection_required(saved.conn, dry_run)
    /\ pc' = "save_refused"
    /\ saved' = [saved EXCEPT !.dry_run = dry_run, !.outcome = "ValueError"]
    /\ UNCHANGED <<resolverVars, classifierVars, args, proposal, plan, runs>>
    /\ UNCHANGED <<analyzerVars, rows, tx, clock, executor>>

\* op_ids = planner.save_to_db(plan, created_by='cli', dry_run=True)
SaveDryRun ==
    /\ pc = "planned"
    /\ ~connection_required(saved.conn, TRUE)
    /\ pc' = "dry_run"
    /\ saved' = [saved EXCEPT !.dry_run = TRUE, !.outcome = "returned",
                              !.ids = OperationIds(plan.operations)]
    /\ UNCHANGED <<resolverVars, classifierVars, args, proposal, plan, runs>>
    /\ UNCHANGED <<analyzerVars, rows, tx, clock, executor>>

\* One round of the loop of save_to_db: the INSERT of the next operation succeeds.
SaveInsert ==
    /\ pc \in {"planned", "saving"}
    /\ ~connection_required(saved.conn, FALSE)
    /\ Len(tx.inserted) < Len(plan.operations)
    /\ tx' = [state |-> "open", failed_at |-> 0,
              inserted |-> Append(tx.inserted,
                                  InsertedRow(plan.operations[Len(tx.inserted) + 1]))]
    /\ rows' = rows_after_insert(rows, InsertedRow(plan.operations[Len(tx.inserted) + 1]))
    /\ pc' = "saving"
    /\ UNCHANGED <<resolverVars, classifierVars, args, proposal, plan, runs>>
    /\ UNCHANGED <<analyzerVars, clock, executor, saved>>

\* One round of the loop of save_to_db: the INSERT raises; the exception leaves
\* save_to_db and cmd_plan through db.connection(), which rolls back.
SaveInsertFails ==
    /\ pc \in {"planned", "saving"}
    /\ ~connection_required(saved.conn, FALSE)
    /\ Len(tx.inserted) < Len(plan.operations)
    /\ tx' = [state |-> "rolled_back", inserted |-> <<>>,
              failed_at |-> Len(tx.inserted) + 1]
    /\ pc' = "save_failed"
    /\ saved' = [saved EXCEPT !.outcome = "Error"]
    /\ UNCHANGED <<resolverVars, classifierVars, args, proposal, plan, runs>>
    /\ UNCHANGED <<analyzerVars, rows, clock, executor>>

\* self.conn.commit() after the loop of save_to_db.
SaveCommit ==
    /\ pc \in {"planned", "saving"}
    /\ ~connection_required(saved.conn, FALSE)
    /\ Len(tx.inserted) = Len(plan.operations)
    /\ rows' = rows_after_commit(rows, tx.inserted, 1)
    /\ tx' = [state |-> "committed", inserted |-> <<>>, failed_at |-> 0]
    /\ saved' = [saved EXCEPT !.outcome = "returned",
                              !.ids = [k \in DOMAIN tx.inserted |-> tx.inserted[k].id]]
    /\ pc' = "saved"
    /\ UNCHANGED <<resolverVars, classifierVars, args, proposal, plan, runs>>
    /\ UNCHANGED <<analyzerVars, clock, executor>>

\* UPDATE content_operations SET status = 'approved', approved_at = NOW()
\* WHERE id in ids AND status = 'pending', at time now.
approve_pending(committed, ids, now) ==
    [id \in DOMAIN committed |->
        IF id \in ids /\ committed[id].status = "pending"
        THEN [committed[id] EXCEPT !.status = "approved", !.approved_at = now]
        ELSE committed[id]]

\* A statement changed the rows and committed; the next NOW() is later.
Approved(after) ==
    /\ after # rows
    /\ rows' = after
    /\ clock' = clock + 1
    /\ UNCHANGED <<resolverVars, classifierVars, pipelineVars, analyzerVars, tx, executor, saved>>

\* planner.approve_all(plan)
ApproveAll ==
    /\ pc = "saved"
    /\ Approved(approve_pending(rows, Range(OperationIds(plan.operations)), clock + 1))

\* The four operation types of the restructuring pipeline.
PipelineTypes == {"create_folder", "restructure", "archive", "add_link"}

\* cmd_approve with --all
CmdApproveAll ==
    /\ DOMAIN rows # {}
    /\ Approved(approve_pending(rows,
                                {id \in DOMAIN rows :
                                    /\ rows[id].target_type = "confluence"
                                    /\ rows[id].operation_type \in PipelineTypes},
                                clock + 1))

\* approve_operation(conn, operation_id); cmd_approve with an operation id
ApproveOperation(operation_id) ==
    Approved(approve_pending(rows, {operation_id}, clock + 1))

\* The orders in which SELECT ... WHERE status = 'approved' ORDER BY
\* approved_at ASC may return the rows: rows of one approved_at in any order.
ApprovedQueues(committed) ==
    {queue \in [1..Cardinality({id \in DOMAIN committed : committed[id].status = "approved"})
                    -> {id \in DOMAIN committed : committed[id].status = "approved"}] :
        \A i, j \in DOMAIN queue :
            i < j => /\ queue[i] # queue[j]
                     /\ committed[queue[i]].approved_at <= committed[queue[j]].approved_at}

\* The executor's process once it holds the ids it is to execute.
Started(mode, queue, dry_run) ==
    /\ executor.mode = "idle"
    /\ queue # <<>>
    /\ executor' = [mode |-> mode, queue |-> queue, current |-> "", dry_run |-> dry_run,
                    all_approved |-> \A id \in DOMAIN rows : rows[id].status = "approved"]
    /\ UNCHANGED <<resolverVars, classifierVars, pipelineVars, analyzerVars, rows, tx, clock, saved>>

\* execute_approved_operations(conn, dry_run) up to its loop.
ExecuteApproved(queue, dry_run) ==
    /\ queue \in ApprovedQueues(rows)
    /\ Started("batch", queue, dry_run)

\* main with --execute UUID: execute_operation(conn, operation_id, dry_run)
ExecuteOne(operation_id, dry_run) ==
    /\ operation_id \in DOMAIN rows
    /\ Started("single", <<operation_id>>, dry_run)

\* operation['status'] in ('approved', 'pending') and a handler exists
Executable(operation) ==
    /\ operation.status \in {"approved", "pending"}
    /\ get_handler(operation)

\* execute_operation up to the handler: a row that is not approved or pending,
\* or has no handler, is left as it is; any other is marked executing.
ExecStart ==
    /\ executor.mode # "idle"
    /\ executor.current = ""
    /\ executor.queue # <<>>
    /\ IF Executable(rows[Head(executor.queue)])
       THEN /\ executor' = [executor EXCEPT !.current = Head(executor.queue),
                                            !.queue = Tail(executor.queue)]
            /\ rows' = IF executor.dry_run THEN rows
                       ELSE [rows EXCEPT ![Head(executor.queue)].status = "executing"]
       ELSE /\ executor' = IF Len(executor.queue) > 1
                           THEN [executor EXCEPT !.queue = Tail(executor.queue)]
                           ELSE IdleExecutor
            /\ rows' = rows
    /\ UNCHANGED <<resolverVars, classifierVars, pipelineVars, analyzerVars, tx, clock, saved>>

\* execute_operation from handler.execute() on: success is what the handler
\* returned, or "exception" when it raised.
ExecFinish(success) ==
    /\ executor.mode # "idle"
    /\ executor.current # ""
    /\ rows' = IF executor.dry_run THEN rows
               ELSE [rows EXCEPT ![executor.current].status =
                        IF success = "True" THEN "completed" ELSE "failed"]
    /\ executor' = IF executor.queue # <<>>
                   THEN [executor EXCEPT !.current = ""]
                   ELSE IdleExecutor
    /\ UNCHANGED <<resolverVars, classifierVars, pipelineVars, analyzerVars, tx, clock, saved>>

HandlerOutcomes == {"True", "False", "exception"}

-----------------------------------------------------------------------------
(* SpecStore: cmd_plan saves a plan, its operations are approved and the    *)
(* executor runs                                                            *)

\* The existing target folders, without those whose title is in missing.
ExistingTargets(missing) ==
    SelectSeq([k \in DOMAIN TargetFolderNames |-> Folder(TargetFolderNames[k])],
              LAMBDA f : f.title \notin missing)

\* What cmd_plan found under the root: two retrospectives and a sprint folder
\* with no retrospectives folder yet; one retrospective of a sprint folder
\* with every target folder there; a design note with no folder for it.
StoredArgs ==
    {[pages |-> <<Page("p1", Retro, {"kudos", "improve"}, "[Sprint08]"),
                  Page("p2", Retro, {"kudos", "improve", "feedback"}, "Sprint 9")>>,
      existing_folders |-> ExistingTargets({"05-Retrospectives"}) \o <<Folder("[Sprint08]")>>],
     [pages |-> <<Page("p1", Retro, {"kudos", "improve"}, "[Sprint08]")>>,
      existing_folders |-> ExistingTargets({}) \o <<Folder("[Sprint08]")>>],
     [pages |-> <<Page("p4", Plain("Design Note"), {"architecture"}, "[Sprint08]")>>,
      existing_folders |-> ExistingTargets({"02-Design-Notes"})]}

\* cmd_plan with the default --context-strategy, before it proposes.
InitStore ==
    /\ InitPipeline
    /\ strategy = "append-parent-name"
    /\ always_preserve_context
    /\ existing_titles = NoTitles

\* The executor started without arguments.
NextBatch ==
    \/ \E queue \in ApprovedQueues(rows) : ExecuteApproved(queue, FALSE)
    \/ ExecStart
    \/ \E success \in HandlerOutcomes : ExecFinish(success)

NextPlanned ==
    \/ \E a \in StoredArgs : Propose(a.pages, a.existing_folders)
    \/ CreatePlan
    \/ SaveInsert
    \/ SaveInsertFails
    \/ SaveCommit
    \/ ApproveAll
    \/ CmdApproveAll
    \/ \E operation_id \in DOMAIN rows : ApproveOperation(operation_id)

NextStore ==
    \/ NextPlanned
    \/ SaveDryRun
    \/ NextBatch
    \/ \E operation_id \in DOMAIN rows : ExecuteOne(operation_id, FALSE)
    \/ \E queue \in ApprovedQueues(rows) : ExecuteApproved(queue, TRUE)
    \/ \E operation_id \in DOMAIN rows : ExecuteOne(operation_id, TRUE)

SpecStore == InitStore /\ [][NextStore]_vars

\* The executor is started without arguments and without --dry-run again and
\* again, and each call of execute_operation it makes runs to its end.
ExecutorFairness ==
    /\ WF_vars(\E queue \in ApprovedQueues(rows) : ExecuteApproved(queue, FALSE))
    /\ WF_vars(ExecStart)
    /\ WF_vars(\E success \in HandlerOutcomes : ExecFinish(success))

NextStoreFair == NextPlanned \/ NextBatch

SpecStoreFair == InitStore /\ [][NextStoreFair]_vars /\ ExecutorFairness

-----------------------------------------------------------------------------
(* SpecSave: save_to_db on a planner with or without a connection            *)

NextSave ==
    \/ NextPlanned
    \/ PlanDetached
    \/ SaveDryRun
    \/ \E dry_run \in BOOLEAN : SaveRefused(dry_run)

SpecSave == InitStore /\ [][NextSave]_vars

-----------------------------------------------------------------------------
(* SpecArchive: propose over the folders found under the root, and again    *)
(* once the folders it marked were archived                                 *)

\* Longest list of existing folders.
MaxFolders == 2

\* The folders found under the root: the target folders, legacy sprint
\* folders, folders whose title only looks like one, archived sprint folders.
ArchiveFolders ==
    {Folder(title) :
        title \in Range(TargetFolderNames)
                    \cup {"[Sprint08]", "Sprint 9", "sprint-10", "Scaled Sprint 3 Notes",
                          "Sprint Planning", "Sprint 9 Demo",
                          ArchivedTitle("[Sprint08]"), ArchivedTitle("Sprint 9")}}

ArchiveFolderLists ==
    {folders \in UNION {[1..n -> ArchiveFolders] : n \in 0..MaxFolders} :
        \A i, j \in DOMAIN folders : i # j => folders[i] # folders[j]}

\* The existing folders once the archive moves were carried out: a marked
\* folder has its new title.
RECURSIVE FoldersAfterArchival(_, _, _)
FoldersAfterArchival(existing_folders, moves, k) ==
    IF k > Len(moves) THEN existing_folders
    ELSE FoldersAfterArchival(
            [i \in DOMAIN existing_folders |->
                IF existing_folders[i].id = moves[k].folder_id
                THEN [existing_folders[i] EXCEPT !.title = moves[k].new_title]
                ELSE existing_folders[i]],
            moves, k + 1)

NextArchive ==
    \/ \E existing_folders \in ArchiveFolderLists : Propose(<<>>, existing_folders)
    \/ proposal.returned /\ ProposeAgain(args.pages, FoldersAfterArchival(args.existing_folders, proposal.folders_to_archive, 1))

SpecArchive == InitStore /\ [][NextArchive]_vars

-----------------------------------------------------------------------------
(* SpecAnalyzer: one call on a SimilarityAnalyzer() with default weights    *)

\* Longest page list group_similar is called with.
MaxAnalyzed == 5

\* The token sets jaccard_similarity is called with.
JaccardTokens == {"kudos", "improve", "feedback"}

\* The pages group_similar is called with: three retrospectives whose bodies
\* overlap in a chain (the first and the third share one keyword of three),
\* two design notes with the same body, and a page with no body.
AnalyzedPages ==
    {Page("p1", Retro, {"kudos", "improve"}, "[Sprint08]"),
     Page("p2", Retro, {"kudos", "improve", "feedback"}, "Sprint 9"),
     Page("p6", Retro, {"improve", "feedback"}, "Sprint 9"),
     Page("p4", Plain("Design Note"), {"architecture"}, "[Sprint08]"),
     Page("p7", Plain("Design Note"), {"architecture"}, "Sprint 9"),
     Page("p5", Plain("Notes"), {}, RootTitle)}

AnalyzedPageLists ==
    {pages \in UNION {[1..n -> AnalyzedPages] : n \in 0..MaxAnalyzed} :
        \A i, j \in DOMAIN pages : i # j => pages[i] # pages[j]}

\* The thresholds group_similar is called with: the default (link_threshold),
\* a lower one and merge_threshold.
AnalyzedThresholds == {link_threshold, Frac(1, 2), merge_threshold}

InitAnalyzer ==
    /\ strategy = "append-parent-name"
    /\ always_preserve_context = TRUE
    /\ existing_titles = NoTitles
    /\ planned_titles = NoTitles
    /\ returned = [f \in FolderIds |-> <<>>]
    /\ last = NoCall
    /\ calls = 0
    /\ min_confidence = DefaultMinConfidence
    /\ classified = NoClassify
    /\ pc = "analyzer"
    /\ args = NoArgs
    /\ proposal = NoProposal
    /\ plan = NoPlan
    /\ Untouched

\* jaccard_similarity(set1, set2), and the same call with the sets exchanged.
\* The analyzer keeps no state between calls: a behaviour makes one call.
JaccardSimilarity(set1, set2) ==
    /\ analyzed = NoAnalysis
    /\ analyzed' = [op |-> "jaccard_similarity", set1 |-> set1, set2 |-> set2,
                    result |-> jaccard_similarity(set1, set2),
                    exchanged |-> jaccard_similarity(set2, set1)]
    /\ UNCHANGED <<resolverVars, classifierVars, pipelineVars, storeVars, forest>>

\* The index pairs <<i, j>>, i < j, of the pages whose compare gives a
\* combined similarity of at least the threshold.
SimilarIndexPairs(pages, threshold) ==
    {e \in (DOMAIN pages) \X (DOMAIN pages) :
        /\ e[1] < e[2]
        /\ FracGeq(compare(pages[e[1]], pages[e[2]]).combined_similarity, threshold)}

\* group_similar(pages, threshold); similar records what compare gives for
\* the pairs of the pages.
GroupSimilar(pages, threshold) ==
    /\ analyzed = NoAnalysis
    /\ analyzed' = [op |-> "group_similar", pages |-> pages, threshold |-> threshold,
                    similar |-> SimilarIndexPairs(pages, threshold),
                    groups |-> group_similar(pages, threshold)]
    /\ UNCHANGED <<resolverVars, classifierVars, pipelineVars, storeVars, forest>>

NextAnalyzer ==
    \/ \E set1, set2 \in SUBSET JaccardTokens : JaccardSimilarity(set1, set2)
    \/ \E pages \in AnalyzedPageLists, threshold \in AnalyzedThresholds :
          GroupSimilar(pages, threshold)

SpecAnalyzer == InitAnalyzer /\ [][NextAnalyzer]_vars

-----------------------------------------------------------------------------
(* C1 *)

\* Two moves of a proposal into the same target folder.
SameFolderMoves(i, j) ==
    /\ i # j
    /\ proposal.pages_to_move[i].target_folder_name = proposal.pages_to_move[j].target_folder_name

\* C1: the titles resolve returned for one target folder since the last
\* reset_planned are pairwise distinct, and no two PageMoves of a returned
\* proposal with the same target folder have the same resolved title.
C1_ResolvedTitlesDistinct ==
    /\ \A f \in FolderIds : \A i, j \in DOMAIN returned[f] :
          i # j => returned[f][i] # returned[f][j]
    /\ proposal.returned =>
          \A i, j \in DOMAIN proposal.pages_to_move :
              SameFolderMoves(i, j) =>
                  proposal.pages_to_move[i].resolved_title
                      # proposal.pages_to_move[j].resolved_title

\* A returned proposal moves two pages of the same original title into one folder.
C1_Witness ==
    /\ proposal.returned
    /\ \E i, j \in DOMAIN proposal.pages_to_move :
          /\ SameFolderMoves(i, j)
          /\ proposal.pages_to_move[i].original_title = proposal.pages_to_move[j].original_title
          /\ Len(returned[FolderA]) >= 2

-----------------------------------------------------------------------------
(* C2 *)

\* The positions of plan.operations that hold an operation of a type.
OperationsOfType(operation_type) ==
    {k \in DOMAIN plan.operations : plan.operations[k].operation_type = operation_type}

\* C2: every id in the depends_on of the operation at position i is the
\* operation_id of an operation at a position j < i.
C2_DependenciesPointBack ==
    plan.created =>
        \A i \in DOMAIN plan.operations :
            \A d \in DOMAIN plan.operations[i].depends_on :
                \E j \in 1..(i - 1) :
                    plan.operations[j].operation_id = plan.operations[i].depends_on[d]

\* A plan with an operation that depends on a restructure operation and on a
\* create_folder operation, and a restructure operation that depends on one.
C2_Witness ==
    /\ plan.created
    /\ \E i \in OperationsOfType("archive") : Len(plan.operations[i].depends_on) >= 2
    /\ \E i \in OperationsOfType("restructure") : Len(plan.operations[i].depends_on) = 1

-----------------------------------------------------------------------------
(* C3 *)

\* The ids of the restructure operations of the plan, in plan order.
RestructureIds ==
    LET positions == SelectSeq([k \in DOMAIN plan.operations |-> k],
                               LAMBDA k : plan.operations[k].operation_type = "restructure")
    IN  [m \in DOMAIN positions |-> plan.operations[positions[m]].operation_id]

\* Whether folders_to_create of the proposal names the folder.
ToCreate(folder_name) ==
    \E k \in DOMAIN proposal.folders_to_create :
        proposal.folders_to_create[k].folder_name = folder_name

\* The positions of the create_folder operations for a folder name.
CreateOps(folder_name) ==
    {k \in OperationsOfType("create_folder") :
        plan.operations[k].operation_data.folder_name = folder_name}

\* C3: when 99-Archive is to be created, every archive operation depends on
\* its create_folder operation and on every restructure operation; when it is
\* not, the depends_on of every archive operation is the list of the
\* restructure operation ids.
C3_ArchiveWaitsForMoves ==
    plan.created =>
        \A i \in OperationsOfType("archive") :
            IF ToCreate("99-Archive")
            THEN /\ \E c \in CreateOps("99-Archive") :
                       plan.operations[c].operation_id \in Range(plan.operations[i].depends_on)
                 /\ Range(RestructureIds) \subseteq Range(plan.operations[i].depends_on)
            ELSE plan.operations[i].depends_on = RestructureIds

\* A plan with an archive operation, two restructure operations and the
\* creation of 99-Archive.
C3_Witness ==
    /\ plan.created
    /\ OperationsOfType("archive") # {}
    /\ Len(RestructureIds) >= 2
    /\ ToCreate("99-Archive")

-----------------------------------------------------------------------------
(* C4 *)

\* The page ids of the moves of the proposal into a folder, in proposal order.
MovedInto(folder_name) ==
    LET moves == SelectSeq(proposal.pages_to_move,
                           LAMBDA move : move.target_folder_name = folder_name)
    IN  [m \in DOMAIN moves |-> moves[m].page_id]

\* The positions of the restructure operations for a folder name.
RestructureOps(folder_name) ==
    {k \in OperationsOfType("restructure") :
        plan.operations[k].operation_data.target_folder_name = folder_name}

\* C4: there is exactly one restructure operation per target folder name of
\* the moves and none for another name; its target_ids are the page ids of the
\* moves into that folder; its depends_on is the one create_folder operation
\* id of the folder when the folder is to be created, and empty otherwise;
\* every moved page id is a target of exactly one restructure operation.
C4_OneRestructurePerFolder ==
    plan.created =>
        /\ \A m \in DOMAIN proposal.pages_to_move :
              Cardinality(RestructureOps(proposal.pages_to_move[m].target_folder_name)) = 1
        /\ \A k \in OperationsOfType("restructure") :
              LET op == plan.operations[k]
                  folder_name == op.operation_data.target_folder_name
              IN  /\ \E m \in DOMAIN proposal.pages_to_move :
                        proposal.pages_to_move[m].target_folder_name = folder_name
                  /\ op.target_ids = MovedInto(folder_name)
                  /\ IF ToCreate(folder_name)
                     THEN /\ Cardinality(CreateOps(folder_name)) = 1
                          /\ \A c \in CreateOps(folder_name) :
                                op.depends_on = <<plan.operations[c].operation_id>>
                     ELSE op.depends_on = <<>>
        /\ \A m \in DOMAIN proposal.pages_to_move :
              Cardinality({<<k, t>> \in OperationsOfType("restructure") \X (1..MaxPages + 1) :
                              /\ t \in DOMAIN plan.operations[k].target_ids
                              /\ plan.operations[k].target_ids[t]
                                    = proposal.pages_to_move[m].page_id}) = 1

\* A plan that moves two pages into an existing folder and a page into a
\* folder still to be created.
C4_Witness ==
    /\ plan.created
    /\ \E k \in OperationsOfType("restructure") :
          /\ Len(plan.operations[k].target_ids) >= 2
          /\ plan.operations[k].depends_on = <<>>
    /\ \E k \in OperationsOfType("restructure") : Len(plan.operations[k].depends_on) = 1

-----------------------------------------------------------------------------
(* C5 *)

\* C5: the depends_on of every add_link operation is the list of the
\* restructure operation ids; it holds the id of no create_folder, archive or
\* add_link operation.
C5_LinksWaitForMovesOnly ==
    plan.created =>
        \A i \in OperationsOfType("add_link") :
            /\ plan.operations[i].depends_on = RestructureIds
            /\ \A k \in DOMAIN plan.operations :
                  plan.operations[k].operation_id \in Range(plan.operations[i].depends_on)
                      => plan.operations[k].operation_type = "restructure"

\* A plan with an add_link operation after an archive operation and a
\* create_folder operation, and with a restructure operation.
C5_Witness ==
    /\ plan.created
    /\ OperationsOfType("add_link") # {}
    /\ OperationsOfType("archive") # {}
    /\ OperationsOfType("create_folder") # {}
    /\ RestructureIds # <<>>

-----------------------------------------------------------------------------
(* C6 *)

\* The last call was a resolve of a title that carries a context marker.
MarkedResolve == last.op = "resolve" /\ has_context(last.title)

\* C6 as stated: resolve returns a title with a context marker unchanged,
\* whatever the resolver holds and whatever force_context is.
C6_MarkedTitleUnchanged ==
    (MarkedResolve /\ ~last.result.raised) => last.result.resolved_title = last.title

\* C6: resolve injects no context into a title with a context marker, whatever
\* force_context is; it returns the title unchanged when the title is not
\* taken in the target folder, and otherwise the title with the first numeric
\* suffix from (2) to (100) that is not taken.
C6_MarkedTitleOnlySuffixed ==
    (MarkedResolve /\ ~last.result.raised) =>
        /\ ~last.result.context_preserved
        /\ last.title \notin last.taken =>
              /\ last.result.resolved_title = last.title
              /\ ~last.result.collision_avoided
        /\ last.title \in last.taken =>
              /\ last.result.collision_avoided
              /\ \E n \in 2..100 :
                    /\ last.result.resolved_title = WithSuffix(last.title, n)
                    /\ WithSuffix(last.title, n) \notin last.taken
                    /\ \A m \in 2..(n - 1) : WithSuffix(last.title, m) \in last.taken

\* resolve was called with force_context for a title with a context marker
\* that was taken, and returned another title.
C6_Witness ==
    /\ MarkedResolve
    /\ last.force_context
    /\ last.context # NoContext
    /\ last.title \in last.taken
    /\ ~last.result.raised
    /\ last.result.resolved_title # last.title

-----------------------------------------------------------------------------
(* C7 *)

\* Two successive resolve calls for the same unmarked title T, the same
\* context C and the same folder, under append-parent-name, when neither
\* "C - T" nor "C - T (2)" was taken before the first.
TwoPagesSameContext ==
    /\ strategy = "append-parent-name"
    /\ last.op = "resolve"
    /\ last'.op = "resolve"
    /\ calls' = calls + 1
    /\ ~has_context(last.title)
    /\ last.context # NoContext
    /\ last'.title = last.title
    /\ last'.folder = last.folder
    /\ last'.context = last.context
    /\ WithParentName(last.context, last.title) \notin last.taken
    /\ WithSuffix(WithParentName(last.context, last.title), 2) \notin last.taken

\* The first call returned "C - T" and the second "C - T (2)".
ParentNameThenSuffix ==
    /\ ~last.result.raised
    /\ ~last'.result.raised
    /\ last.result.resolved_title = WithParentName(last.context, last.title)
    /\ last'.result.resolved_title = WithSuffix(WithParentName(last.context, last.title), 2)

\* C7 as stated: for every resolver configuration with append-parent-name.
C7_ParentNameThenSuffix_always == [][TwoPagesSameContext => ParentNameThenSuffix]_vars

\* Each of the two calls injects the context: always_preserve_context is set,
\* or T is taken in the folder, or the call has force_context.
BothInject ==
    \/ always_preserve_context
    \/ last.title \in last.taken
    \/ last.force_context /\ last'.force_context

\* C7: when each of the two calls injects the context, the first returns
\* "C - T" and the second "C - T (2)".
C7_ParentNameThenSuffix ==
    [][(TwoPagesSameContext /\ BothInject) => ParentNameThenSuffix]_vars

\* The last two resolve calls into a folder returned "C - T" and "C - T (2)".
C7_Witness ==
    /\ strategy = "append-parent-name"
    /\ last.op = "resolve"
    /\ ~has_context(last.title)
    /\ last.context # NoContext
    /\ Len(returned[last.folder]) = 2
    /\ returned[last.folder][1] = WithParentName(last.context, last.title)
    /\ returned[last.folder][2] = WithSuffix(WithParentName(last.context, last.title), 2)

-----------------------------------------------------------------------------
(* C8 *)

\* The title resolve holds when it checks for the remaining collision is
\* taken, and so are its candidates with the suffixes (2) to (n).
TakenThrough(n) ==
    /\ last.result.injected \in last.taken
    /\ \A k \in 2..n : WithSuffix(last.result.injected, k) \in last.taken

\* C8 as stated: resolve raises exactly when 100 successive suffixed
\* candidates, (2) to (101), are taken.
C8_RaisesAfterHundred == last.op = "resolve" => (last.result.raised <=> TakenThrough(101))

\* C8: resolve raises exactly when the title it holds after the optional
\* context injection is taken and so are its 99 candidates with the suffixes
\* (2) to (100); otherwise it returns a title.
C8_RaisesAfterNinetyNine == last.op = "resolve" => (last.result.raised <=> TakenThrough(100))

\* resolve raised although the candidate with the suffix (101) was free.
C8_Witness ==
    /\ last.op = "resolve"
    /\ last.result.raised
    /\ TakenThrough(100)
    /\ WithSuffix(last.result.injected, 101) \notin last.taken

-----------------------------------------------------------------------------
(* C9 *)

\* C9: when a resolve call of propose raised, propose raised to its caller,
\* the caller holds no proposal and no plan was made of one; a plan is made
\* from a returned proposal only.
C9_NoProposalOnRaise ==
    /\ (last.op = "resolve" /\ last.result.raised) =>
          /\ pc = "raised"
          /\ proposal = NoProposal
          /\ plan = NoPlan
    /\ pc = "raised" => (last.op = "resolve" /\ last.result.raised)
    /\ plan.created => proposal.returned
    /\ proposal.returned <=> pc \in {"proposed", "planned"}

\* propose raised after it had resolved the title of another page.
C9_Witness ==
    /\ pc = "raised"
    /\ last.result.raised
    /\ \E f \in FolderIds : returned[f] # <<>>
    /\ Len(args.pages) >= 2

-----------------------------------------------------------------------------
(* C10 *)

\* The raw score of a document type as the claim states it, in hundredths:
\* 0.6 for a title-pattern match plus 0.4 * min(keyword hits / 5, 1).
ClaimedRawScore(doc_type, title, content) ==
    (IF doc_type \in TitlePatternTypes(title) THEN 60 ELSE 0)
        + 8 * Min(Cardinality(CONTENT_KEYWORDS(doc_type) \cap content), 5)

ClaimedBestScore(title, content) ==
    CHOOSE s \in {ClaimedRawScore(DocumentTypes[i], title, content) : i \in DOMAIN DocumentTypes} :
        \A i \in DOMAIN DocumentTypes : ClaimedRawScore(DocumentTypes[i], title, content) <= s

-----------------------------------------------------------------------------
(* C11 *)

\* The pages a chain of similar pairs links to a page of S.
RECURSIVE Component(_, _)
Grown(edges, S, T) == IF T = S THEN S ELSE Component(edges, T)
Component(edges, S) ==
    Grown(edges, S, S \cup {e[2] : e \in {d \in edges : d[1] \in S}}
                      \cup {e[1] : e \in {d \in edges : d[2] \in S}})

\* The groups that hold the page of an index.
GroupsOf(i) ==
    {g \in DOMAIN analyzed.groups : analyzed.pages[i].id \in Range(analyzed.groups[g].page_ids)}

\* Two pages share a group exactly when a chain of the pairs `edges` links
\* them, and no page is in two groups.
GroupedByChains(edges) ==
    \A i, j \in DOMAIN analyzed.pages :
        /\ Cardinality(GroupsOf(i)) <= 1
        /\ i # j => ((GroupsOf(i) \cap GroupsOf(j) # {}) <=> (j \in Component(edges, {i})))

\* The first and the third page of a chain of two pairs of `edges` are no pair
\* of `edges` and share a group.
ChainGrouped(edges) ==
    \E i, j, k \in DOMAIN analyzed.pages :
        /\ {<<i, j>>, <<j, i>>} \cap edges # {}
        /\ {<<j, k>>, <<k, j>>} \cap edges # {}
        /\ i # k
        /\ {<<i, k>>, <<k, i>>} \cap edges = {}
        /\ GroupsOf(i) \cap GroupsOf(k) # {}

\* C11: group_similar puts two pages in one group exactly when a chain of
\* pairs of combined similarity >= threshold links them; no page is in two
\* groups.
C11_GroupsAreComponents ==
    analyzed.op = "group_similar" => GroupedByChains(analyzed.similar)

\* Three pages of one group of which the first and the third are not similar,
\* and a second group.
C11_Witness ==
    /\ analyzed.op = "group_similar"
    /\ Len(analyzed.groups) = 2
    /\ ChainGrouped(analyzed.similar)

-----------------------------------------------------------------------------
(* C12 *)

\* C12: jaccard_similarity(A, B) = jaccard_similarity(B, A); the value is in
\* [0, 1]; it is |A & B| / |A | B| when one of the sets is not empty and 0 when
\* both are.
C12_JaccardSymmetricBounded ==
    analyzed.op = "jaccard_similarity" =>
        /\ analyzed.result = analyzed.exchanged
        /\ analyzed.result.den > 0
        /\ 0 <= analyzed.result.num
        /\ analyzed.result.num <= analyzed.result.den
        /\ analyzed.result.num * Cardinality(analyzed.set1 \cup analyzed.set2)
              = Cardinality(analyzed.set1 \cap analyzed.set2) * analyzed.result.den
        /\ (analyzed.set1 = {} /\ analyzed.set2 = {}) => analyzed.result.num = 0

\* Two sets that overlap, neither within the other, and two empty sets.
C12_Witness ==
    /\ analyzed.op = "jaccard_similarity"
    /\ analyzed.set1 \cap analyzed.set2 # {}
    /\ analyzed.set1 \ analyzed.set2 # {}
    /\ analyzed.set2 \ analyzed.set1 # {}
    /\ analyzed.result = [num |-> 1, den |-> 3]

-----------------------------------------------------------------------------
(* C16 *)

\* The link suggestions of the proposal for the page ids of a group.
SuggestionsFor(group) ==
    {k \in DOMAIN proposal.link_suggestions :
        proposal.link_suggestions[k].page_ids = group.page_ids}

\* The add_link operations of the plan for the page ids of a group.
LinkOpsFor(group) ==
    {i \in OperationsOfType("add_link") : plan.operations[i].target_ids = group.page_ids}

\* Whether the average similarity of a group is below merge_threshold.
BelowMerge(group) == FracGt(merge_threshold, group.avg_similarity)

\* `groups` being the similarity groups of the pages: one suggestion for each
\* group below merge_threshold, none for another group, no suggestion that is
\* not for a group; and the same for the add_link operations of the plan.
LinksForLinkGroups(groups) ==
    /\ \A g \in DOMAIN groups :
          /\ groups[g].recommendation = (IF BelowMerge(groups[g]) THEN "link" ELSE "merge")
          /\ Cardinality(SuggestionsFor(groups[g])) = (IF BelowMerge(groups[g]) THEN 1 ELSE 0)
          /\ plan.created =>
                Cardinality(LinkOpsFor(groups[g])) = (IF BelowMerge(groups[g]) THEN 1 ELSE 0)
    /\ Len(proposal.link_suggestions)
          = Cardinality({g \in DOMAIN groups : BelowMerge(groups[g])})
    /\ plan.created =>
          Cardinality(OperationsOfType("add_link")) = Len(proposal.link_suggestions)

\* C16: link_suggestions holds exactly one LinkSuggestion for each similarity
\* group of the pages whose average similarity is below merge_threshold and
\* none for a group at or above it; create_plan emits add_link operations for
\* the suggestions only.
C16_LinkGroupsOnly ==
    proposal.returned => LinksForLinkGroups(group_similar(args.pages, link_threshold))

\* Some group of `groups` is at or above merge_threshold.
HasMergeGroup(groups) == \E g \in DOMAIN groups : ~BelowMerge(groups[g])

\* A plan made of a proposal whose pages form a group at or above
\* merge_threshold, with moves and no add_link operation.
C16_Witness ==
    /\ plan.created
    /\ HasMergeGroup(group_similar(args.pages, link_threshold))
    /\ OperationsOfType("add_link") = {}
    /\ OperationsOfType("restructure") # {}

-----------------------------------------------------------------------------
(* C17 *)

\* The last call was a resolve, which returned, of a title without a context
\* marker with a non-empty source_context.
UnmarkedResolve ==
    /\ last.op = "resolve"
    /\ ~has_context(last.title)
    /\ last.context # NoContext
    /\ ~last.result.raised

\* The condition under which the context is to be injected.
InjectionDue ==
    /\ strategy # "append-suffix"
    /\ \/ last.title \in last.taken
       \/ last.force_context
       \/ always_preserve_context

\* The context token the strategy puts in front of the title.
ContextToken ==
    PreTok(IF strategy = "append-parent-name" THEN "dash" ELSE "bracket", last.context)

-----------------------------------------------------------------------------
(* C20 *)

\* The title sets are as they were.
TitleSetsUnchanged ==
    /\ planned_titles' = planned_titles
    /\ existing_titles' = existing_titles

\* What a step of the resolver does to the title sets, by the call it makes.
ResolverFrame ==
    /\ last'.op = "resolve" =>
          IF last'.result.raised
          THEN TitleSetsUnchanged
          ELSE /\ existing_titles' = existing_titles
               /\ \A f \in FolderIds :
                     planned_titles'[f] =
                        IF f = last'.folder
                        THEN planned_titles[f] \cup {last'.result.resolved_title}
                        ELSE planned_titles[f]
    /\ last'.op = "check_collision" => TitleSetsUnchanged
    /\ last'.op = "reset_planned" =>
          /\ \A f \in FolderIds : planned_titles'[f] = {}
          /\ existing_titles' = existing_titles
    /\ last'.op # "reset_planned" =>
          \A f \in FolderIds : planned_titles[f] \subseteq planned_titles'[f]

\* C20: without reset_planned every planned set only grows; resolve adds the
\* resolved title to the planned set of its target folder and changes no other
\* planned set and no existing set; check_collision changes nothing;
\* reset_planned empties every planned set and leaves the existing sets.
C20_PlannedGrowsUntilReset == [][ResolverFrame]_vars

\* A third resolve added its title to a folder that had a planned title, while
\* another folder had one too.
C20_Witness ==
    /\ last.op = "resolve"
    /\ ~last.result.raised
    /\ Cardinality(planned_titles[last.folder]) >= 2
    /\ \E f \in FolderIds : f # last.folder /\ planned_titles[f] # {}
    /\ \E f \in FolderIds : existing_titles[f] = {}

-----------------------------------------------------------------------------
(* C15 *)

\* The proposals a and b name the same folders to create, moves with the same
\* resolved titles, archives and link suggestions.
SameProposal(a, b) ==
    /\ a.returned = b.returned
    /\ a.returned =>
          /\ a.folders_to_create = b.folders_to_create
          /\ a.pages_to_move = b.pages_to_move
          /\ a.folders_to_archive = b.folders_to_archive
          /\ a.link_suggestions = b.link_suggestions

\* What propose gives for the arguments of the last call on a freshly
\* constructed proposer of the same configuration.
FreshProposal ==
    ProposalOfCaller(propose(strategy, always_preserve_context, min_confidence,
                             NoTitles, RootId, args.pages, args.existing_folders))

\* C15: a propose call on a proposer that has served earlier propose calls
\* returns the proposal a freshly constructed proposer returns for the same
\* arguments.
C15_ReuseAsFresh == runs >= 1 => SameProposal(proposal, FreshProposal)

-----------------------------------------------------------------------------
(* C13 *)

\* [op.operation_id for op in plan.operations]
PlanIds == IF plan.created THEN Range(OperationIds(plan.operations)) ELSE {}

\* The committed rows of the plan are none or all, and none before the commit
\* of save_to_db, after a failed insert or after a dry run.
AllOrNothing ==
    /\ DOMAIN rows \in {{}, PlanIds}
    /\ pc \in {"idle", "proposed", "raised", "planned", "saving", "dry_run"} => DOMAIN rows = {}
    /\ pc = "save_failed" => DOMAIN rows = {} /\ tx.state = "rolled_back"
    /\ pc = "saved" => DOMAIN rows = PlanIds

\* Rows become durable only in the commit after the last insert, all at once
\* and with status pending.
DurableByCommitOnly ==
    DOMAIN rows' # DOMAIN rows =>
        /\ DOMAIN rows = {}
        /\ Len(tx.inserted) = Len(plan.operations)
        /\ pc' = "saved"
        /\ DOMAIN rows' = PlanIds
        /\ \A id \in DOMAIN rows' : rows'[id].status = "pending"

\* C13: save_to_db is all-or-nothing: the committed rows of a plan are none or
\* the rows of all its operations; they become durable only through the one
\* commit after the last insert, each with status pending; when an insert
\* fails the exception reaches the caller with no operation committed.
C13_AllOrNothing == []AllOrNothing /\ [][DurableByCommitOnly]_vars

\* The third insert of a plan failed after two had succeeded, and nothing of
\* the plan is committed.
C13_Witness ==
    /\ pc = "save_failed"
    /\ tx.state = "rolled_back"
    /\ tx.failed_at >= 3
    /\ DOMAIN rows = {}

-----------------------------------------------------------------------------
(* C14 *)

\* The status changes of the lifecycle.
LifecycleSteps ==
    {<<"pending", "approved">>, <<"approved", "executing">>,
     <<"executing", "completed">>, <<"executing", "failed">>}

\* A step inserts rows as pending and changes the status of a row along the
\* lifecycle only.
LifecycleStep ==
    \A id \in DOMAIN rows' :
        IF id \in DOMAIN rows
        THEN \/ rows'[id].status = rows[id].status
             \/ <<rows[id].status, rows'[id].status>> \in LifecycleSteps
        ELSE rows'[id].status = "pending"

\* C14: every status change of a persisted operation follows pending ->
\* approved -> executing -> completed | failed; an operation enters executing
\* only from approved.
C14_Lifecycle == [][LifecycleStep]_vars

-----------------------------------------------------------------------------
(* C18 *)

\* depends_on of the operation of the plan with this id.
DependsOn(operation_id) ==
    Range(plan.operations[CHOOSE k \in DOMAIN plan.operations :
                              plan.operations[k].operation_id = operation_id].depends_on)

\* In a run of execute_approved_operations over a plan that was approved as a
\* whole, an operation starts executing only when the operations it depends
\* on have completed.
DependenciesFirst ==
    \A id \in DOMAIN rows :
        (/\ executor.mode = "batch"
         /\ executor.all_approved
         /\ rows[id].status # "executing"
         /\ rows'[id].status = "executing")
        => \A d \in DependsOn(id) : rows[d].status = "completed"

\* C18: when execute_approved_operations processes a plan all of whose
\* operations were approved, no operation starts executing before every
\* operation of its depends_on has completed.
C18_DependenciesFirst == [][DependenciesFirst]_vars

-----------------------------------------------------------------------------
(* C19 *)

\* Most operations a stored plan has.
MaxStored == 4

\* C19: with the executor run again and again without --dry-run, every
\* approved operation of the four pipeline types is eventually completed or
\* failed.
C19_ApprovedEventuallyDone ==
    \A k \in 1..MaxStored :
        [](  (/\ uuid4(k) \in DOMAIN rows
              /\ rows[uuid4(k)].status = "approved"
              /\ rows[uuid4(k)].operation_type \in PipelineTypes)
           => <>(/\ uuid4(k) \in DOMAIN rows
                 /\ rows[uuid4(k)].status \in {"completed", "failed"}))

-----------------------------------------------------------------------------
(* C21 *)

\* The title sets with every folder but target_folder_id emptied.
OnlyFolder(titles, target_folder_id) ==
    [f \in DOMAIN titles |-> IF f = target_folder_id THEN titles[f] ELSE {}]

\* A resolve call returns what it returns on a resolver that holds the titles
\* of its target folder only.
ResolvesAsAlone ==
    last'.op = "resolve" =>
        last'.result = resolve(strategy, always_preserve_context,
                               OnlyFolder(existing_titles, last'.folder),
                               OnlyFolder(planned_titles, last'.folder),
                               last'.title, last'.folder, last'.context,
                               last'.force_context)

\* C21: the NameResolution of a resolve call for target folder F is the same
\* whatever titles exist or were planned in folders other than F.
C21_BucketsIndependent == [][ResolvesAsAlone]_vars

\* resolve returned a title unchanged into one folder while another folder
\* holds that very title.
C21_Witness ==
    /\ last.op = "resolve"
    /\ ~last.result.raised
    /\ ~last.result.collided
    /\ last.result.resolved_title = last.title
    /\ \E f \in FolderIds :
          /\ f # last.folder
          /\ last.title \in existing_titles[f] \cup planned_titles[f]

-----------------------------------------------------------------------------
(* C22 *)

\* Nothing was inserted and nothing committed.
StoreUntouched == rows = NoRows /\ tx = NoTx

\* C22: save_to_db with dry_run=True inserts and commits nothing, with or
\* without a connection, and returns the operation_id of every operation of
\* the plan in plan order; save_to_db with dry_run=False and no connection
\* raises before any insert, leaving the store unchanged.
C22_DryRunAndNoConnection ==
    /\ (saved.outcome # "none" /\ saved.dry_run) =>
          /\ saved.outcome = "returned"
          /\ Len(saved.ids) = Len(plan.operations)
          /\ \A k \in DOMAIN saved.ids : saved.ids[k] = plan.operations[k].operation_id
          /\ StoreUntouched
    /\ (saved.outcome # "none" /\ ~saved.dry_run /\ ~saved.conn) =>
          /\ saved.outcome = "ValueError"
          /\ StoreUntouched

\* A dry run of a plan of four operations on a planner with no connection
\* returned their ids.
C22_Witness ==
    /\ ~saved.conn
    /\ saved.dry_run
    /\ saved.outcome = "returned"
    /\ Len(saved.ids) = 4
    /\ pc = "dry_run"

-----------------------------------------------------------------------------
(* C23 *)

\* The title starts with "[ARCHIVED] ".
StartsArchived(title) ==
    /\ Len(Characters(title)) >= Len(ArchivedPrefix)
    /\ SubSeq(Characters(title), 1, Len(ArchivedPrefix)) = ArchivedPrefix

\* The existing folders of the call whose title matches the legacy
\* sprint-folder pattern, in the order of the call.
LegacyFolders == SelectSeq(args.existing_folders, LAMBDA f : _is_sprint_folder(f.title))

\* C23: propose marks for archival exactly the existing folders whose title
\* matches the legacy sprint-folder pattern, each with new title "[ARCHIVED] "
\* followed by its title; no canonical target folder and no folder whose
\* title starts with "[ARCHIVED] " is marked, so that propose run again after
\* the archival marks none of the archived folders.
C23_ArchivesLegacyOnly ==
    proposal.returned =>
        /\ Len(proposal.folders_to_archive) = Len(LegacyFolders)
        /\ \A k \in DOMAIN proposal.folders_to_archive :
              /\ proposal.folders_to_archive[k].folder_id = LegacyFolders[k].id
              /\ proposal.folders_to_archive[k].folder_title = LegacyFolders[k].title
              /\ proposal.folders_to_archive[k].new_title
                    = "[ARCHIVED] " \o LegacyFolders[k].title
              /\ LegacyFolders[k].title \notin Range(TargetFolderNames)
              /\ ~StartsArchived(LegacyFolders[k].title)
        /\ \A i \in DOMAIN args.existing_folders :
              (\/ args.existing_folders[i].title \in Range(TargetFolderNames)
               \/ StartsArchived(args.existing_folders[i].title))
              => \A k \in DOMAIN proposal.folders_to_archive :
                    proposal.folders_to_archive[k].folder_id # args.existing_folders[i].id

\* propose ran again over two folders it had marked and that were archived
\* since, and marks nothing.
C23_Witness ==
    /\ runs = 2
    /\ proposal.returned
    /\ Len(args.existing_folders) = 2
    /\ \A i \in DOMAIN args.existing_folders :
          /\ StartsArchived(args.existing_folders[i].title)
          /\ args.existing_folders[i].id \in {RealId("[Sprint08]"), RealId("sprint-10")}
    /\ proposal.folders_to_archive = <<>>

-----------------------------------------------------------------------------
(* C24 *)

\* C24: collision_avoided of a NameResolution is true exactly when the
\* original title or the title with the context injected was an existing or
\* planned title of the target folder when the call began.
C24_CollisionAvoidedIffDetected ==
    (last.op = "resolve" /\ ~last.result.raised) =>
        (last.result.collision_avoided
            <=> (last.title \in last.taken \/ last.result.injected \in last.taken))

-----------------------------------------------------------------------------
(* C25 *)

\* The input page of a move.
MovedPage(move) == CHOOSE p \in Range(args.pages) : p.id = move.page_id

\* The page has no extractable sprint context and no other input page has its title.
AloneWithItsTitle(p) ==
    /\ SourceSprint(p.title, p.parent_title) = NoContext
    /\ \A q \in Range(args.pages) : q.id # p.id => q.title # p.title

\* C25: on a proposer that knows no title yet, a page with no extractable
\* sprint context whose title no other input page has keeps its title:
\* resolved_title is the original title, name_changed is false and no
\* collision is counted for it, also when the page is in its target folder
\* already.
C25_NoSelfRename ==
    (runs = 1 /\ proposal.returned) =>
        /\ \A k \in DOMAIN proposal.pages_to_move :
              AloneWithItsTitle(MovedPage(proposal.pages_to_move[k])) =>
                  /\ proposal.pages_to_move[k].resolved_title
                        = proposal.pages_to_move[k].original_title
                  /\ ~proposal.pages_to_move[k].name_changed
        /\ (\A p \in Range(args.pages) : AloneWithItsTitle(p)) =>
              proposal.collision_resolutions = 0

-----------------------------------------------------------------------------
(* C26 *)

\* C26: a title returned by resolve is in neither the existing nor the
\* planned titles of the target folder as they stood when the call began; no
\* move of a proposal is planned under a title that a page of its target
\* folder has.
C26_ResolvedTitleFree ==
    /\ (last.op = "resolve" /\ ~last.result.raised) =>
          last.result.resolved_title \notin last.taken
    /\ proposal.returned =>
          \A k \in DOMAIN proposal.pages_to_move :
              proposal.pages_to_move[k].resolved_title \notin
                  existing_titles[target_folder_id_of(args.existing_folders,
                                      proposal.pages_to_move[k].target_folder_name)]

\* resolve went past a taken title and its taken first numbered variant.
C26_Witness ==
    /\ last.op = "resolve"
    /\ ~last.result.raised
    /\ last.result.injected \in last.taken
    /\ WithSuffix(last.result.injected, 2) \in last.taken
    /\ last.result.resolved_title = WithSuffix(last.result.injected, 3)
    /\ last.result.resolved_title \notin last.taken

-----------------------------------------------------------------------------
(* SpecDestinations: propose and create_plan when the caller's list of      *)
(* existing folders holds a folder without an id                            *)

\* A folder dict whose 'id' is missing or empty: f.get('id') is falsy.
FolderWithoutId(title) == [id |-> "", title |-> title]

\* The lists of existing folders: none, the retrospectives folder with its
\* id, and the retrospectives folder without one.
DestinationFolderLists ==
    {<<>>,
     <<Folder("05-Retrospectives")>>,
     <<FolderWithoutId("05-Retrospectives")>>}

NextDestinations ==
    \/ \E pages \in PageLists, existing_folders \in DestinationFolderLists :
           Propose(pages, existing_folders)
    \/ CreatePlan

SpecDestinations == InitStore /\ [][NextDestinations]_vars

\* The ids of the folders the caller listed.
ExistingFolderIds == {args.existing_folders[k].id : k \in DOMAIN args.existing_folders} \ {""}

\* The restructure operation carries the id of an existing folder.
KnownDestination(op) == op.operation_data.target_folder_id \in ExistingFolderIds

\* The restructure operation waits for the create_folder operation of its folder.
AwaitsCreation(op) ==
    \E k \in DOMAIN plan.folder_operations :
        /\ plan.folder_operations[k].operation_data.folder_name =
               op.operation_data.target_folder_name
        /\ plan.folder_operations[k].operation_id \in Range(op.depends_on)

\* C27: in a plan built by create_plan from a proposal returned by propose,
\* every restructure operation carries the id of an existing folder or
\* depends on the create_folder operation of its target folder, whatever the
\* existing folders are, those without an id included.
C27_DestinationKnownOrAwaited ==
    plan.created =>
        \A k \in DOMAIN plan.move_operations :
            \/ KnownDestination(plan.move_operations[k])
            \/ AwaitsCreation(plan.move_operations[k])

-----------------------------------------------------------------------------
(* C28: one PageMove per input page                                         *)

\* The sum of the counters of pages_by_type over the first k document types.
RECURSIVE SummaryTotal(_, _)
SummaryTotal(summary, k) ==
    IF k = 0 THEN 0 ELSE summary[DocumentTypes[k]] + SummaryTotal(summary, k - 1)

\* The folder TARGET_FOLDERS names for a document type.
CanonicalFolder(doc_type) ==
    TARGET_FOLDERS[CHOOSE k \in DOMAIN TARGET_FOLDERS :
                       TARGET_FOLDERS[k].doc_type = doc_type].folder_name

\* The moves of the proposal that move the page.
MovesOf(page) ==
    {k \in DOMAIN proposal.pages_to_move : proposal.pages_to_move[k].page_id = page.id}

\* C28: a proposal returned by propose holds exactly one PageMove per input
\* page; the number of moves, the number of input pages, total_pages and the
\* sum of the pages_by_type counters are equal, and every move goes to the
\* canonical folder of its doc_type (99-Uncategorized for uncategorized).
C28_OneMovePerPage ==
    proposal.returned =>
        /\ \A i \in DOMAIN args.pages : Cardinality(MovesOf(args.pages[i])) = 1
        /\ Len(proposal.pages_to_move) = Len(args.pages)
        /\ proposal.total_pages = Len(args.pages)
        /\ SummaryTotal(proposal.pages_by_type, Len(DocumentTypes)) = Len(args.pages)
        /\ \A k \in DOMAIN proposal.pages_to_move :
               /\ proposal.pages_to_move[k].doc_type \in Range(DocumentTypes)
               /\ proposal.pages_to_move[k].target_folder_name =
                      CanonicalFolder(proposal.pages_to_move[k].doc_type)
        /\ \A k \in DOMAIN proposal.pages_to_move :
               proposal.pages_to_move[k].doc_type = UNCATEGORIZED =>
                   proposal.pages_to_move[k].target_folder_name = "99-Uncategorized"

\* A returned proposal for three pages of which two are retrospectives and
\* one is uncategorized: the moves are not in page order.
C28_Witness ==
    /\ proposal.returned
    /\ Len(args.pages) = 3
    /\ proposal.pages_by_type["retrospective"] = 2
    /\ proposal.pages_by_type[UNCATEGORIZED] = 1
    /\ args.pages[2].id = proposal.pages_to_move[3].page_id
    /\ proposal.pages_to_move[3].target_folder_name = "99-Uncategorized"

-----------------------------------------------------------------------------
(* SpecUnionFind: a UnionFind object under any sequence of union, find and  *)
(* get_groups calls                                                         *)

\* Number of different pairs of two elements union is called with.
MaxUnions == 3

\* The page ids given to union and find.
Elements == {"p1", "p2", "p3", "p4"}

\* The UnionFind object after get_groups: the loop called find on every key.
RECURSIVE after_get_groups(_, _)
after_get_groups(uf, i) ==
    IF i > Len(uf.keys) THEN uf
    ELSE after_get_groups(find(uf, uf.keys[i]).uf, i + 1)

\* The pairs of different elements union was called with, after union(x, y).
WithCall(calls_made, x, y) == IF x = y THEN calls_made ELSE calls_made \cup {{x, y}}

\* uf.union(x, y)
Union(x, y) ==
    /\ Cardinality(WithCall(forest.unions, x, y)) <= MaxUnions
    /\ forest' = [uf |-> union(forest.uf, x, y),
                  unions |-> WithCall(forest.unions, x, y),
                  op |-> "union", root |-> "", groups |-> <<>>]
    /\ UNCHANGED <<resolverVars, classifierVars, pipelineVars, storeVars, analyzed>>

\* uf.find(x)
Find(x) ==
    /\ forest' = [uf |-> find(forest.uf, x).uf,
                  unions |-> forest.unions,
                  op |-> "find", root |-> find(forest.uf, x).root, groups |-> <<>>]
    /\ UNCHANGED <<resolverVars, classifierVars, pipelineVars, storeVars, analyzed>>

\* uf.get_groups()
GetGroups ==
    /\ forest' = [uf |-> after_get_groups(forest.uf, 1),
                  unions |-> forest.unions,
                  op |-> "get_groups", root |-> "", groups |-> get_groups(forest.uf)]
    /\ UNCHANGED <<resolverVars, classifierVars, pipelineVars, storeVars, analyzed>>

NextUnionFind ==
    \/ \E x, y \in Elements : Union(x, y)
    \/ \E x \in Elements : Find(x)
    \/ GetGroups

SpecUnionFind == InitStore /\ [][NextUnionFind]_vars

-----------------------------------------------------------------------------
(* C29 *)

\* The elements a chain of union calls links to an element of S.
RECURSIVE Joined(_, _)
JoinedMore(calls_made, S, T) == IF T = S THEN S ELSE Joined(calls_made, T)
Joined(calls_made, S) ==
    JoinedMore(calls_made, S, S \cup UNION {e \in calls_made : e \cap S # {}})

\* The element n parent pointers above x.
RECURSIVE Climb(_, _, _)
Climb(uf, x, n) == IF n = 0 THEN x ELSE Climb(uf, uf.parent[x], n - 1)

\* Every chain of parent pointers ends in an element that is its own parent.
NoCycle(uf) ==
    \A x \in DOMAIN uf.parent :
        /\ uf.parent[x] \in DOMAIN uf.parent
        /\ uf.parent[Climb(uf, x, Len(uf.keys))] = Climb(uf, x, Len(uf.keys))

\* What find(x) returns on the object as it is.
RootOf(uf, x) == find(uf, x).root

\* The classes find tells: the elements with the root of x.
ClassOf(uf, x) == {y \in Elements : RootOf(uf, y) = RootOf(uf, x)}

\* find(x) = find(y) exactly for the elements the union calls made so far connect.
FindTellsConnected(uf, calls_made) ==
    \A x, y \in Elements :
        (RootOf(find(uf, x).uf, y) = find(uf, x).root) <=> (y \in Joined(calls_made, {x}))

\* The classes, as find would tell them, are the same before and after a find call.
FindKeepsPartition ==
    forest'.op = "find" =>
        \A x \in Elements : ClassOf(forest'.uf, x) = ClassOf(forest.uf, x)

\* What get_groups returned holds every known element once, and one entry per
\* class of the known elements.
GroupsArePartition(groups, uf, calls_made) ==
    /\ \A x \in DOMAIN uf.parent :
           /\ Cardinality({g \in DOMAIN groups : x \in Range(groups[g].members)}) = 1
           /\ \A g \in DOMAIN groups :
                  x \in Range(groups[g].members) =>
                      /\ Range(groups[g].members) = Joined(calls_made, {x}) \cap DOMAIN uf.parent
                      /\ Cardinality({m \in DOMAIN groups[g].members :
                                          groups[g].members[m] = x}) = 1
    /\ \A g \in DOMAIN groups :
           /\ groups[g].members # <<>>
           /\ Range(groups[g].members) \subseteq DOMAIN uf.parent
    /\ \A g, h \in DOMAIN groups : groups[g].root = groups[h].root => g = h

UnionFindSound ==
    /\ NoCycle(forest.uf)
    /\ FindTellsConnected(forest.uf, forest.unions)
    /\ GroupsArePartition(get_groups(forest.uf), forest.uf, forest.unions)
    /\ forest.op = "get_groups" =>
           GroupsArePartition(forest.groups, forest.uf, forest.unions)

\* C29: after any sequence of union and find calls, find(x) = find(y) if and
\* only if the union calls made so far connect x and y; find never changes
\* the partition; the parent pointers form no cycle but a root pointing to
\* itself; get_groups returns every class once and every known element in
\* exactly one class.
C29_UnionFindPartition == []UnionFindSound /\ [][FindKeepsPartition]_vars

\* A find call compressed a path of two pointers: p4 stood under p3 and p3
\* under p1, and p4 now stands under p1 with the classes as they were.
C29_Witness ==
    /\ forest.op = "find"
    /\ forest.root = "p1"
    /\ forest.unions = {{"p1", "p2"}, {"p3", "p4"}, {"p1", "p3"}}
    /\ forest.uf.parent["p3"] = "p1"
    /\ forest.uf.parent["p4"] = "p1"
    /\ forest.uf.rank["p1"] = 2
    /\ ClassOf(forest.uf, "p4") = Elements

-----------------------------------------------------------------------------
(* Floats: the binary64 values the analyzer computes with.  A value v,     *)
(* 0 <= v < 2^15, is the natural number v * 2^75 written as six digits of   *)
(* base 2^15, lowest digit first; every float from 2^-22 up is such a       *)
(* number.  Sums, products and quotients are computed exactly on the digits *)
(* and rounded to 53 significant bits, ties to even.                        *)

Base == 2^15

DigitAt(n, j) == IF j \in DOMAIN n THEN n[j] ELSE 0

\* Bit i of n, bit 0 being the lowest.
BitAt(n, i) == (DigitAt(n, i \div 15 + 1) \div 2^(i % 15)) % 2

\* The number of bits of a digit.
DigitBits(v) == CHOOSE k \in 0..15 : v < 2^k /\ (k = 0 \/ v >= 2^(k - 1))

\* The place of the highest digit of n that is not 0; 0 when n is 0.
TopDigit(n) ==
    IF \A j \in DOMAIN n : n[j] = 0 THEN 0
    ELSE CHOOSE j \in DOMAIN n : n[j] # 0 /\ \A k \in DOMAIN n : k > j => n[k] = 0

BitLengthAt(n, top) == IF top = 0 THEN 0 ELSE 15 * (top - 1) + DigitBits(n[top])

\* The number of bits of n.
BitLength(n) == BitLengthAt(n, TopDigit(n))

\* Whether n is a multiple of 2^s.
LowBitsZero(n, s) ==
    \A j \in DOMAIN n :
        /\ j <= s \div 15 => n[j] = 0
        /\ j = s \div 15 + 1 => n[j] % 2^(s % 15) = 0

\* n with its s lowest bits cleared.
WithoutLowBits(n, s) ==
    [j \in DOMAIN n |->
        IF j <= s \div 15 THEN 0
        ELSE IF j = s \div 15 + 1 THEN n[j] - (n[j] % 2^(s % 15))
        ELSE n[j]]

\* 2^s in len digits.
PowerOfTwo(s, len) == [j \in 1..len |-> IF j = s \div 15 + 1 THEN 2^(s % 15) ELSE 0]

\* The digits from place j up of x + y + carry * Base^(j - 1), len being the
\* places of the longer of x and y.
RECURSIVE SumFrom(_, _, _, _, _)
SumFrom(x, y, len, j, carry) ==
    IF j > len THEN <<carry>>
    ELSE <<(DigitAt(x, j) + DigitAt(y, j) + carry) % Base>>
             \o SumFrom(x, y, len, j + 1, (DigitAt(x, j) + DigitAt(y, j) + carry) \div Base)

\* x + y, one digit longer than the longer of the two.
NatSum(x, y) ==
    CHOOSE sum \in {SumFrom(a, b, IF Len(a) > Len(b) THEN Len(a) ELSE Len(b), 1, 0) :
                        a \in {x}, b \in {y}} : TRUE

\* x * k for a digit k, one digit longer than x.
RECURSIVE TimesDigitFrom(_, _, _, _)
TimesDigitFrom(x, k, j, carry) ==
    IF j > Len(x) THEN <<carry>>
    ELSE <<(x[j] * k + carry) % Base>>
             \o TimesDigitFrom(x, k, j + 1, (x[j] * k + carry) \div Base)

\* x * (the digits of y from place i up) * Base^(i - 1)
RECURSIVE ProductFrom(_, _, _)
ProductFrom(x, y, i) ==
    IF i > Len(y) THEN <<>>
    ELSE NatSum([j \in 1..(i - 1) |-> 0] \o TimesDigitFrom(x, y[i], 1, 0),
                ProductFrom(x, y, i + 1))

\* The digits 1..j of the quotient of n by the small number d, rem being what
\* the digits above j left.
RECURSIVE QuotientFrom(_, _, _, _)
QuotientFrom(n, d, j, rem) ==
    IF j = 0 THEN <<>>
    ELSE Append(QuotientFrom(n, d, j - 1, (rem * Base + n[j]) % d),
                (rem * Base + n[j]) \div d)

RECURSIVE RemainderFrom(_, _, _, _)
RemainderFrom(n, d, j, rem) ==
    IF j = 0 THEN rem ELSE RemainderFrom(n, d, j - 1, (rem * Base + n[j]) % d)

\* n rounded to a multiple of 2^s, ties to the even multiple; inexact tells
\* that the number n stands for is a little more than n.
RoundedAt(n, s, inexact) ==
    IF BitAt(n, s - 1) = 1 /\ (inexact \/ ~LowBitsZero(n, s - 1) \/ BitAt(n, s) = 1)
    THEN NatSum(WithoutLowBits(n, s), PowerOfTwo(s, Len(n)))
    ELSE Append(WithoutLowBits(n, s), 0)

\* n rounded to 53 significant bits, one digit longer than n.
Rounded(n, inexact) ==
    CHOOSE r \in {IF b[2] <= 53 THEN Append(b[1], 0) ELSE RoundedAt(b[1], b[2] - 53, inexact) :
                      b \in {<<m, BitLength(m)>> : m \in {n}}} : TRUE

\* The float nearest to n / d: what int / int and a decimal literal give.
Float(n, d) ==
    SubSeq(Rounded(QuotientFrom(<<0, 0, 0, 0, 0, 0, 0, n>>, d, 8, 0),
                   RemainderFrom(<<0, 0, 0, 0, 0, 0, 0, n>>, d, 8, 0) # 0),
           3, 8)

\* x * y
FloatTimes(x, y) ==
    CHOOSE r \in {SubSeq(Rounded(ProductFrom(a, b, 1), FALSE), 6, 11) : a \in {x}, b \in {y}} : TRUE

\* x + y
FloatPlus(x, y) == SubSeq(Rounded(NatSum(x, y), FALSE), 1, 6)

\* x / k for an int k
FloatOver(x, k) ==
    CHOOSE r \in {SubSeq(Rounded(QuotientFrom(a, k, 8, 0), RemainderFrom(a, k, 8, 0) # 0), 3, 8) :
                      a \in {<<0, 0>> \o x}} : TRUE

\* x > y
FloatGt(x, y) ==
    \E a \in {x}, b \in {y} : \E j \in 1..6 : a[j] > b[j] /\ \A k \in (j + 1)..6 : a[k] = b[k]

\* x >= y
FloatGeq(x, y) == ~FloatGt(y, x)

\* 0.0
FloatZero == <<0, 0, 0, 0, 0, 0>>

-----------------------------------------------------------------------------
(* SpecAverages: group_similar on a SimilarityAnalyzer() with default       *)
(* weights, its similarities computed in floats as the code computes them   *)

\* Longest page list group_similar is called with.
MaxAveraged == 3

\* The float of a fraction: what `len(intersection) / len(union)` gives for
\* the two sizes, and what a decimal literal such as 0.7 stands for.
AsFloat(frac) == Float(frac.num, frac.den)

\* `combined = title_sim * self.title_weight + content_sim * self.content_weight`
combined_similarity(title_sim, content_sim) ==
    FloatPlus(FloatTimes(AsFloat(title_sim), AsFloat(title_weight)),
              FloatTimes(AsFloat(content_sim), AsFloat(content_weight)))

\* The results of compare with their combined similarity as the float.
InFloats(results) ==
    [k \in DOMAIN results |->
        [results[k] EXCEPT !.combined_similarity =
            combined_similarity(results[k].title_similarity, results[k].content_similarity)]]

\* list.sort(key=..., reverse=True) on float keys.
FloatSortDescending(seq, keys) ==
    [k \in DOMAIN seq |->
        seq[CHOOSE i \in DOMAIN seq :
                Cardinality({j \in DOMAIN seq :
                                \/ FloatGt(keys[j], keys[i])
                                \/ keys[j] = keys[i] /\ j < i}) = k - 1]]

\* `if result.combined_similarity >= threshold`, then the sort.
similar_of(results, threshold) ==
    FloatSortDescending(
        SelectSeq(results, LAMBDA result : FloatGeq(result.combined_similarity, threshold)),
        CombinedSimilarities(
            SelectSeq(results, LAMBDA result : FloatGeq(result.combined_similarity, threshold))))

\* find_similar_pairs(pages, threshold), threshold being a float.
find_similar_pairs_float(pages, threshold) ==
    similar_of(InFloats(Compared(pages, IndexPairs(Len(pages)))), threshold)

\* `total_sim = 0.0`, then `total_sim += pair_similarities[pair_key]` over sims[i..].
RECURSIVE total_sim(_, _, _)
total_sim(sims, i, total) ==
    IF i > Len(sims) THEN total ELSE total_sim(sims, i + 1, FloatPlus(total, sims[i]))

\* `total_sim / pair_count if pair_count > 0 else threshold`
avg_of(sims, threshold) ==
    IF Len(sims) > 0 THEN FloatOver(total_sim(sims, 1, FloatZero), Len(sims)) ELSE threshold

\* avg_sim of group_similar for the group with these members.
avg_sim_float(member_ids, similar_pairs, threshold) ==
    avg_of(RecordedSimilarities(member_ids, similar_pairs,
               SelectSeq(IndexPairs(Len(member_ids)),
                         LAMBDA p : PairRecorded(similar_pairs, member_ids[p[1]], member_ids[p[2]]))),
           threshold)

\* The SimilarityGroup of group_similar, avg being a float.
SimilarityGroupFloat(group_id, member_ids, pages, avg) ==
    [group_id |-> group_id,
     page_ids |-> member_ids,
     page_titles |-> [m \in DOMAIN member_ids |-> PageOf(pages, member_ids[m]).title],
     avg_similarity |-> avg,
     primary_page_id |-> _select_primary(member_ids, pages),
     recommendation |-> IF FloatGeq(avg, AsFloat(merge_threshold)) THEN "merge" ELSE "link"]

GroupsFloat(pages, threshold, similar_pairs, raw_groups) ==
    [k \in DOMAIN raw_groups |->
        SimilarityGroupFloat(k - 1, raw_groups[k].members, pages,
                             avg_sim_float(raw_groups[k].members, similar_pairs, threshold))]

\* `groups.sort(key=lambda g: g.avg_similarity, reverse=True)`
SortedGroupsFloat(groups) == FloatSortDescending(groups, AvgSimilarities(groups))

\* group_similar once find_similar_pairs gave similar_pairs.
group_pairs_float(pages, threshold, similar_pairs) ==
    SortedGroupsFloat(
        GroupsFloat(pages, threshold, similar_pairs,
                    SelectSeq(get_groups(union_all(find_all(UnionFindNew, pages, 1),
                                                   similar_pairs, 1)),
                              LAMBDA g : Len(g.members) >= 2)))

\* group_similar(pages, threshold), in floats.
group_similar_float(pages, threshold) ==
    group_pairs_float(pages, threshold, find_similar_pairs_float(pages, threshold))

\* The pages group_similar is called with: three retrospectives of the same
\* title, any two of which share two keywords of four, and a design note.
AveragedPages ==
    {Page("p2", Retro, {"kudos", "improve", "feedback"}, "Sprint 9"),
     Page("p8", Retro, {"kudos", "improve", "agenda"}, "Sprint 9"),
     Page("p9", Retro, {"kudos", "improve", "architecture"}, "Sprint 9"),
     Page("p4", Plain("Design Note"), {"architecture"}, "[Sprint08]")}

AveragedPageLists ==
    {pages \in UNION {[1..n -> AveragedPages] : n \in 0..MaxAveraged} :
        \A i, j \in DOMAIN pages : i # j => pages[i] # pages[j]}

\* The combined similarity compare gives for every pair of the pages, by the
\* index pair <<i, j>>, i < j.
CombinedOf(pages) ==
    [e \in {p \in (DOMAIN pages) \X (DOMAIN pages) : p[1] < p[2]} |->
        combined_similarity(compare(pages[e[1]], pages[e[2]]).title_similarity,
                            compare(pages[e[1]], pages[e[2]]).content_similarity)]

\* group_similar(pages, threshold); combined records what compare gives for
\* the pairs of the pages.  The analyzer keeps no state between calls: a
\* behaviour makes one call.
GroupSimilarFloat(pages, threshold) ==
    /\ analyzed = NoAnalysis
    /\ analyzed' = [op |-> "group_similar", pages |-> pages, threshold |-> AsFloat(threshold),
                    combined |-> CombinedOf(pages),
                    groups |-> group_similar_float(pages, AsFloat(threshold))]
    /\ UNCHANGED <<resolverVars, classifierVars, pipelineVars, storeVars, forest>>

NextAverages ==
    \E pages \in AveragedPageLists, threshold \in AnalyzedThresholds :
        GroupSimilarFloat(pages, threshold)

SpecAverages == InitAnalyzer /\ [][NextAverages]_vars

-----------------------------------------------------------------------------
(* C30 *)

\* The index pairs of the pages whose combined similarity is at least the
\* threshold.
Qualifying ==
    {e \in DOMAIN analyzed.combined : FloatGeq(analyzed.combined[e], analyzed.threshold)}

\* The indices of the pages that are members of the group.
MemberIndices(group) ==
    {i \in DOMAIN analyzed.pages : analyzed.pages[i].id \in Range(group.page_ids)}

\* The qualifying pairs between members of the group.
QualifyingWithin(group) ==
    {e \in Qualifying : e[1] \in MemberIndices(group) /\ e[2] \in MemberIndices(group)}

\* The qualifying pairs between members of the group in the order of the two
\* loops over the members, who stand in the order of the pages.
QualifyingInOrder(group) ==
    SelectSeq(IndexPairs(Len(analyzed.pages)), LAMBDA e : e \in QualifyingWithin(group))

\* The similarities of the pairs.
SimilaritiesOf(pairs) == [k \in DOMAIN pairs |-> analyzed.combined[pairs[k]]]

\* avg is the mean of the similarities of the qualifying pairs between the
\* members of the group: their float sum over their number.
IsMeanOf(avg, group) ==
    /\ QualifyingWithin(group) # {}
    /\ avg = FloatOver(total_sim(SimilaritiesOf(QualifyingInOrder(group)), 1, FloatZero),
                       Cardinality(QualifyingWithin(group)))

\* C30: the groups group_similar returns are pairwise disjoint, each has at
\* least two members, every member forms a qualifying pair (combined
\* similarity >= threshold) with another member of its group, and each group's
\* avg_similarity is >= threshold, being the mean of the qualifying pairs
\* between its members.
C30_GroupsQualify ==
    analyzed.op = "group_similar" =>
        /\ \A g, h \in DOMAIN analyzed.groups :
              g # h => Range(analyzed.groups[g].page_ids)
                          \cap Range(analyzed.groups[h].page_ids) = {}
        /\ \A g \in DOMAIN analyzed.groups :
              /\ Len(analyzed.groups[g].page_ids) >= 2
              /\ \A i \in MemberIndices(analyzed.groups[g]) :
                    \E e \in QualifyingWithin(analyzed.groups[g]) : i \in {e[1], e[2]}
              /\ FloatGeq(analyzed.groups[g].avg_similarity, analyzed.threshold)
              /\ IsMeanOf(analyzed.groups[g].avg_similarity, analyzed.groups[g])

=============================================================================
